---- MODULE Spec2Model ----
(***************************************************************************)
(* minitorrent: the tracker announce cycle of BitTorrenter                 *)
(* (core-logic/src/core/net.rs), the tracker codec                         *)
(* (core-logic/src/core/tracker.rs) and the bencode cursor parser they     *)
(* rest on.  Text and wire data are sequences of byte values 0..255.       *)
(***************************************************************************)
EXTENDS Integers, Sequences, FiniteSets, TLC

VARIABLES
    \* ---- BitTorrenter (core-logic/src/lib.rs) ----
    peer_id,        \* BitTorrenter.peer_id : [u8; 20]
    port,           \* BitTorrenter.port : u16
    sockets,        \* connections currently borrowing BitTorrenter.socket_buffers
    \* ---- one call of make_tracker_request ----
    pc,             \* suspension point of the running call, "idle" between calls
    metadata,       \* the MetaInfoFile argument of the running / last call
    url,            \* the local SimpleUrl
    request,        \* the local request String<512>
    unsent,         \* the part of the request write_all has not yet written
    ip,             \* the local ip: the resolved address, until connect takes it
    sent,           \* bytes the transport accepted on the current connection
    wire,           \* the response the tracker sends on the current connection
    rx_buf,         \* the caller's rx_buf
    result,         \* what the last call returned
    ioLog,          \* I/O calls make_http_request issued in the running / last call
    ioDone,         \* those of them that completed with Ok
    lastRead,       \* rx_buf and byte count as read() left them, before the shift
    cycles,         \* calls of make_tracker_request started so far
    cancelAt,       \* where the call before the running one was abandoned, else "none"
    \* ---- one call of TrackerResponse::parse ----
    input,          \* the input slice
    doc,            \* how the input was put together (not seen by the parser)
    pos,            \* BencodeParser cursor (bytes consumed)
    interval,       \* local interval (u32, as two 16-bit halves)
    peers,          \* local heapless Vec<SocketAddrV4, 10>
    pending,        \* chunks the running peers.extend has not pushed yet
    pstate,         \* "start", "loop", "extend", "ok", "err", "panic"
    perr,           \* the bencode Error returned, "none" otherwise
    iters,          \* iterations of the dictionary loop begun
    \* ---- calls of percent_encode and of TrackerRequest ----
    pe_bytes,       \* the bytes argument of percent_encode
    encoded,        \* what the last percent_encode returned
    pe_prev,        \* what the percent_encode before it returned
    pe_calls,       \* calls of percent_encode made
    tr_args,        \* the arguments given to TrackerRequest::new
    tracker_request, \* the TrackerRequest made of them
    url_encoded,    \* what to_url_encoded returned for it
    enc_pc,         \* "new", "made", "encoded" for the request; "panicked"
    \* ---- one SimpleUrl ----
    utext,          \* the text given to SimpleUrl::parse
    udoc,           \* how the text was put together (not seen by the parser)
    parse_ret,      \* what SimpleUrl::parse returned
    simple_url,     \* the SimpleUrl as it is now
    set_calls,      \* arguments of the set_query calls made on it, in order
    got,            \* what the accessors returned when last read
    \* ---- one call of get_torrent_from_file ----
    fs_dirs,        \* the volume: whether torrents exists, and its entries
    fs_pc,          \* position in get_torrent_from_file
    opened_dir,     \* FileSystem.opened_dir
    open_file,      \* FileSystem.open_file
    dir_idx,        \* entries iterate_dir_lfn has passed to the closure
    file_name,      \* local file_name
    fs_ret,         \* what get_torrent_from_file returned
    \* ---- one EspSpiDma (src/fs/sd_card.rs) ----
    dma_spi,        \* EspSpiDma.spi is Some
    dma_tx_buf,     \* EspSpiDma.tx_buf: whether Some, and its length
    dma_rx_buf,     \* EspSpiDma.rx_buf: whether Some, and its length
    dma_pc,         \* "idle", or the await a transfer is suspended at
    dma_held,       \* what the suspended transfer owns
    dma_ret,        \* what the last call returned
    dma_calls,      \* calls of transfer and transfer_copy started
    \* ---- one FileSystem and the handles of its VolumeManager ----
    file_system,    \* opened_dir, open_file, and the handles the volume_mgr holds open
    fs_last         \* the last operation called and whether it returned Ok

netVars == <<peer_id, port, sockets, pc, metadata, url, request, unsent, sent,
             wire, rx_buf, result, ioLog, ioDone, lastRead, cycles, cancelAt, ip>>
parseVars == <<input, doc, pos, interval, peers, pending, pstate, perr, iters>>
encVars == <<pe_bytes, encoded, pe_prev, pe_calls, tr_args, tracker_request,
             url_encoded, enc_pc>>
urlVars == <<utext, udoc, parse_ret, simple_url, set_calls, got>>
fsVars == <<fs_dirs, fs_pc, opened_dir, open_file, dir_idx, file_name, fs_ret>>
dmaVars == <<dma_spi, dma_tx_buf, dma_rx_buf, dma_pc, dma_held, dma_ret, dma_calls>>
handleVars == <<file_system, fs_last>>
vars == <<netVars, parseVars, encVars, urlVars, fsVars, dmaVars, handleVars>>

-----------------------------------------------------------------------------
(* Text as byte sequences                                                   *)

\* The printable ASCII characters, code 32 first (three of them by name).
Printable ==
    <<" ", "!", "dquote", "#", "$", "%", "&", "'", "(", ")", "*", "+", ",", "-",
      ".", "/", "0", "1", "2", "3", "4", "5", "6", "7", "8", "9", ":", ";",
      "<", "=", ">", "?", "@", "A", "B", "C", "D", "E", "F", "G", "H", "I",
      "J", "K", "L", "M", "N", "O", "P", "Q", "R", "S", "T", "U", "V", "W",
      "X", "Y", "Z", "[", "bslash", "]", "^", "_", "btick", "a", "b", "c", "d", "e",
      "f", "g", "h", "i", "j", "k", "l", "m", "n", "o", "p", "q", "r", "s",
      "t", "u", "v", "w", "x", "y", "z", "{", "|", "}", "~">>

\* The byte value of a printable character.
A(c) == 31 + (CHOOSE i \in 1..Len(Printable) : Printable[i] = c)

\* The bytes of a text given character by character.
T(s) == [i \in 1..Len(s) |-> A(s[i])]

CR == 13
LF == 10
CRLF == <<CR, LF>>

RECURSIVE Concat(_)
Concat(ss) == IF ss = <<>> THEN <<>> ELSE Head(ss) \o Concat(Tail(ss))

\* n copies of byte b.
Rep(b, n) == [i \in 1..n |-> b]

\* s[from..] with a 0-based start, as Rust's &s[from..].
From(s, from) == SubSeq(s, from + 1, Len(s))
\* s[..to] with a 0-based exclusive end, as Rust's &s[..to].
Upto(s, to) == SubSeq(s, 1, to)

\* str::find / slice::windows(n).position: 0-based index of the first
\* occurrence of pat in s, or -1 when there is none.
Find(s, pat) ==
    LET n == Len(pat)
        hits == {i \in 0..(Len(s) - n) : SubSeq(s, i + 1, i + n) = pat}
    IN IF n > Len(s) \/ hits = {} THEN -1
       ELSE CHOOSE i \in hits : \A j \in hits : i <= j

\* Display of an unsigned integer: decimal, no sign, no leading zero.
RECURSIVE Dec(_)
Dec(n) == IF n < 10 THEN <<A("0") + n>>
          ELSE Append(Dec(n \div 10), A("0") + (n % 10))

\* heapless::String<N>::push_str: appends the whole piece or, when it does
\* not fit, appends nothing and reports an error.
PushStr(s, piece, cap) ==
    IF s.ok /\ Len(s.str) + Len(piece) <= cap
    THEN [ok |-> TRUE, str |-> s.str \o piece]
    ELSE [ok |-> FALSE, str |-> s.str]

\* A sequence of write_str calls on a fresh heapless::String<cap>, as made
\* by write! with the given literal and argument pieces; ok is FALSE as soon
\* as one piece does not fit (fmt::Error).
RECURSIVE WritePieces(_, _, _)
WritePieces(s, pieces, cap) ==
    IF pieces = <<>> \/ ~s.ok THEN s
    ELSE WritePieces(PushStr(s, Head(pieces), cap), Tail(pieces), cap)

EmptyString == [ok |-> TRUE, str |-> <<>>]

------------------------------------------------------------------------\* Text literals of the source.
SchemeSepT == T(<<":", "/", "/">>)
SlashT == T(<<"/">>)
QMarkT == T(<<"?">>)
ColonT == T(<<":">>)
HttpSchemeT == T(<<"h", "t", "t", "p">>)
HttpsSchemeT == T(<<"h", "t", "t", "p", "s">>)
InfoHashKeyT == T(<<"i","n","f","o","_","h","a","s","h","=">>)
PeerIdKeyT == T(<<"&","p","e","e","r","_","i","d","=">>)
PortKeyT == T(<<"&","p","o","r","t","=">>)
UploadedKeyT == T(<<"&","u","p","l","o","a","d","e","d","=">>)
DownloadedKeyT == T(<<"&","d","o","w","n","l","o","a","d","e","d","=">>)
LeftKeyT == T(<<"&","l","e","f","t","=">>)
CompactKeyT == T(<<"&","c","o","m","p","a","c","t","=">>)
AnnouncePathT == T(<<"/", "a", "n", "n", "o", "u", "n", "c", "e">>)
PortPathQueryT == T(<<":", "6", "9", "6", "9", "/", "a", "?", "k", "=", "v">>)
HttpsT == T(<<"h", "t", "t", "p", "s", ":", "/", "/">>)
BadPortPathT == T(<<":", "x", "/", "a">>)
GetT == T(<<"G", "E", "T", " ">>)
HttpVersionT == T(<<" ", "H", "T", "T", "P", "/", "1", ".", "1">>)
HostHeaderT == T(<<"H", "o", "s", "t", ":", " ">>)
ConnectionCloseT == T(<<"C", "o", "n", "n", "e", "c", "t", "i", "o", "n", ":", " ", "c", "l", "o", "s", "e">>)

-----
(* SimpleUrl (core-logic/src/core/net.rs, mod url)                          *)

QueryCap == 512

\* str::parse::<u16>: an optional leading '+', then one or more decimal
\* digits whose value fits 16 bits; -1 stands for the ParseIntError.
RECURSIVE ParseDigitsU16(_, _)
ParseDigitsU16(s, acc) ==
    IF s = <<>> THEN acc
    ELSE IF Head(s) < A("0") \/ Head(s) > A("9") THEN -1
    ELSE LET v == acc * 10 + (Head(s) - A("0"))
         IN IF v > 65535 THEN -1 ELSE ParseDigitsU16(Tail(s), v)

ParseU16(s) ==
    LET digits == IF s # <<>> /\ Head(s) = A("+") THEN Tail(s) ELSE s
    IN IF digits = <<>> THEN -1 ELSE ParseDigitsU16(digits, 0)

\* The closure of parse and set_query: a fresh String<512> that receives q,
\* or stays empty when q does not fit (the push_str error is dropped by ok()).
StoreQuery(q) ==
    [some |-> TRUE, str |-> IF Len(q) <= QueryCap THEN q ELSE <<>>]

NoQuery == [some |-> FALSE, str |-> <<>>]

UrlError(msg) == [ok |-> FALSE, err |-> msg]

\* SimpleUrl::parse.  port -1 is None.
SimpleUrlParse(u) ==
    LET sep == Find(u, SchemeSepT) IN
    IF sep = -1 THEN UrlError("Invalid URL: missing scheme")
    ELSE
    LET scheme == Upto(u, sep)
        rest == From(u, sep + 3)
        slash == Find(rest, SlashT)
        qmark == Find(rest, QMarkT)
        cut == IF slash # -1 THEN slash ELSE IF qmark # -1 THEN qmark ELSE Len(rest)
        host_port == Upto(rest, cut)
        path_query == From(rest, cut)
        colon == Find(host_port, ColonT)
        host == IF colon # -1 THEN Upto(host_port, colon) ELSE host_port
        port_num == IF colon # -1 THEN ParseU16(From(host_port, colon + 1)) ELSE -1
        pq == Find(path_query, QMarkT)
        path == IF path_query = <<>> THEN SlashT
                ELSE IF pq # -1
                     THEN (IF Upto(path_query, pq) = <<>> THEN SlashT
                           ELSE Upto(path_query, pq))
                     ELSE path_query
        query == IF path_query # <<>> /\ pq # -1
                 THEN StoreQuery(From(path_query, pq + 1))
                 ELSE NoQuery
    IN IF colon # -1 /\ port_num = -1 THEN UrlError("Invalid port number")
       ELSE [ok |-> TRUE, scheme |-> scheme, host |-> host, port |-> port_num,
             path |-> path, query |-> query]

\* UrlPort that lets the scheme default win over the stored port.
UrlPortDefaultFirst(su) ==
    IF su.scheme = HttpSchemeT THEN 80
    ELSE IF su.scheme = HttpsSchemeT THEN 443
    ELSE su.port

\* SimpleUrl::port: the stored port, else the scheme default, else None (-1).
UrlPort(su) ==
    IF su.port # -1 THEN su.port
    ELSE IF su.scheme = HttpSchemeT THEN 80
    ELSE IF su.scheme = HttpsSchemeT THEN 443
    ELSE -1

\* SetQuery storing an empty query for None.
SetQueryEmpty(su, q) ==
    [su EXCEPT !.query = IF q.some THEN StoreQuery(q.str) ELSE StoreQuery(<<>>)]

\* SimpleUrl::set_query.
SetQuery(su, q) == [su EXCEPT !.query = IF q.some THEN StoreQuery(q.str) ELSE NoQuery]

-----------------------------------------------------------------------------
(* TrackerRequest (core-logic/src/core/tracker.rs) and percent_encode       *)

PercentCap == 60

HexDigits == T(<<"0", "1", "2", "3", "4", "5", "6", "7", "8", "9",
                 "A", "B", "C", "D", "E", "F">>)

\* PercentByte of a general percent-encoder: letters and digits pass through.
PercentByteSafe(b) ==
    IF (b >= A("0") /\ b <= A("9")) \/ (b >= A("A") /\ b <= A("Z"))
       \/ (b >= A("a") /\ b <= A("z"))
    THEN <<b>>
    ELSE <<A("%"), HexDigits[(b \div 16) + 1], HexDigits[(b % 16) + 1]>>

\* "%{:02X}" of one byte.
PercentByte(b) == <<A("%"), HexDigits[(b \div 16) + 1], HexDigits[(b % 16) + 1]>>

\* percent_encode: one write! per byte into a String<60>; ok is FALSE when
\* a write! fails, which the unwrap turns into a panic.
percent_encode(bytes) ==
    WritePieces(EmptyString, [i \in 1..Len(bytes) |-> PercentByte(bytes[i])], PercentCap)

\* TrackerRequest::new with the length taken as downloaded, not as left.
TrackerRequestNewSwapped(info_hash, pid, prt, left) ==
    [info_hash |-> info_hash, peer_id |-> pid, port |-> prt,
     uploaded |-> 0, downloaded |-> left, left |-> 0, compact |-> 1]

\* TrackerRequest::new.
TrackerRequestNew(info_hash, pid, prt, left) ==
    [info_hash |-> info_hash, peer_id |-> pid, port |-> prt,
     uploaded |-> 0, downloaded |-> 0, left |-> left, compact |-> 1]

\* to_url_encoded writing a separator after every field.
to_url_encoded_trailing(tr) ==
    Concat(<<InfoHashKeyT, percent_encode(tr.info_hash).str,
             PeerIdKeyT, percent_encode(tr.peer_id).str,
             PortKeyT, Dec(tr.port),
             UploadedKeyT, Dec(tr.uploaded),
             DownloadedKeyT, Dec(tr.downloaded),
             LeftKeyT, Dec(tr.left),
             CompactKeyT, Dec(tr.compact), <<A("&")>> >>)

\* TrackerRequest::to_url_encoded (the String it writes to grows on demand).
to_url_encoded(tr) ==
    Concat(<<InfoHashKeyT, percent_encode(tr.info_hash).str,
             PeerIdKeyT, percent_encode(tr.peer_id).str,
             PortKeyT, Dec(tr.port),
             UploadedKeyT, Dec(tr.uploaded),
             DownloadedKeyT, Dec(tr.downloaded),
             LeftKeyT, Dec(tr.left),
             CompactKeyT, Dec(tr.compact)>>)

-----------------------------------------------------------------------------
(* Inputs of the announce cycle                                             *)

MaxCycles == 2      \* calls of make_tracker_request in one behaviour
MaxResp == 5        \* longest response the tracker sends
RxBufLen == 5       \* length of the caller's rx_buf

RequestCap == 512

Min(a, b) == IF a < b THEN a ELSE b

\* The info hash of the sample torrent (tests/integration_test.rs) and the
\* all-zero hash of the unit tests.
SampleHash == <<214, 159, 145, 230, 178, 174, 76, 84, 36, 104,
                209, 7, 58, 113, 212, 234, 19, 135, 154, 127>>
ZeroHash == Rep(0, 20)

HostT == T(<<"t", ".", "i", "o">>)
HttpT == T(<<"h", "t", "t", "p", ":", "/", "/">>)

\* With host t.io and a five-digit length the request is 243 bytes plus the
\* path: a path of 269 bytes fills the String<512> exactly.
FitPath == SlashT \o Rep(A("a"), 268)
LongPath == SlashT \o Rep(A("a"), 269)

PlainAnnounce == HttpT \o HostT \o AnnouncePathT

Announces ==
    { PlainAnnounce,
      HttpT \o HostT \o PortPathQueryT,
      HttpsT \o HostT,
      HostT \o AnnouncePathT,
      HttpT \o HostT \o BadPortPathT,
      HttpT \o HostT \o FitPath,
      HttpT \o HostT \o LongPath }

\* The sample torrent with each announce URL, and an empty torrent.
MetaInfos ==
    { [announce |-> a, length |-> 92063, info_hash |-> SampleHash] : a \in Announces }
    \cup { [announce |-> PlainAnnounce, length |-> 0, info_hash |-> ZeroHash] }

\* The caller's buffer as passed in: stale content of an earlier use.
RxBufArg == Rep(A("x"), RxBufLen)

RespBytes == {CR, LF, A("d")}
Responses == UNION {[1..k -> RespBytes] : k \in 0..MaxResp}

\* SimpleUrl::parse of every announce URL above, tabulated once.
ParsedAnnounce == [a \in Announces |-> SimpleUrlParse(a)]

NoMeta == [announce |-> <<>>, length |-> 0, info_hash |-> <<>>]
NoUrl == [ok |-> FALSE, err |-> "none"]
NoResult == [tag |-> "none", n |-> 0]
NoRead == [buf |-> <<>>, n |-> 0, done |-> FALSE]

-----------------------------------------------------------------------------
(* BitTorrenter::make_tracker_request / make_http_request                   *)

IoOrder == <<"resolve", "connect", "write", "flush", "read">>
Suspended == {"resolve", "connect", "write", "flush", "read"}

\* BitTorrenter::new: the identity fields.
NewPeerId == Rep(0, 20)
NewPort == 6881

\* BuildRequest without the Connection header.
BuildRequestNoClose(su) ==
    WritePieces(EmptyString,
        <<GetT, su.path, QMarkT, su.query.str, HttpVersionT \o CRLF,
          HostHeaderT, su.host, CRLF, CRLF>>,
        RequestCap)

\* The request text built by the four write! calls of make_http_request.
BuildRequest(su) ==
    WritePieces(EmptyString,
        <<GetT, su.path, QMarkT, su.query.str,
          HttpVersionT \o CRLF,
          HostHeaderT, su.host, CRLF,
          ConnectionCloseT \o CRLF,
          CRLF>>,
        RequestCap)

\* http_header_end_pos returning the start of the blank line.
http_header_end_pos_short(response) ==
    LET p == Find(response, <<CR, LF, CR, LF>>)
    IN IF p # -1 THEN p + 2 ELSE 0

\* http_header_end_pos.
http_header_end_pos(response) ==
    LET p == Find(response, <<CR, LF, CR, LF>>)
    IN IF p # -1 THEN p + 4 ELSE 0

\* slice::copy_within(src_start..src_end, 0).
CopyWithin(buf, src_start, src_end) ==
    [i \in 1..Len(buf) |->
        IF i <= src_end - src_start THEN buf[src_start + i] ELSE buf[i]]

\* ErrTag with every failure tagged as a resolver failure.
ErrTagDns(op) == "DnsError"

\* map_err of each awaited call.
ErrTag(op) == IF op = "resolve" THEN "DnsError" ELSE "TcpError"

\* DropTcp for a connection that outlives the call.
DropTcpLeak(n) == n

\* The local tcp goes out of scope when make_http_request returns: the
\* connection it holds is dropped and its borrow of the buffers ends.
DropTcp(n) == n - 1

\* DropFuture that keeps the connection of a call abandoned while reading.
DropFutureLeak(at, n) == IF at \in {"resolve", "read"} THEN n ELSE n - 1

\* Dropping the future at a suspension point drops the locals alive there:
\* the socket exists from the start of connect on.
DropFuture(at, n) == IF at = "resolve" THEN n ELSE n - 1

\* WriteAllDone of a single write() in place of write_all.
WriteAllDoneFirstWrite(rest) == TRUE

\* write_all loops until the slice is empty.
WriteAllDone(rest) == rest = <<>>

\* Byte counts one write() call may accept of a slice of the given length.
WriteSizes(len) == {len} \cup {k \in {len \div 2} : k >= 1}

\* Byte counts one read() may deliver: at least one byte while the peer has
\* data, never more than the buffer holds, 0 at end of stream.
ReadSizes(w, buflen) ==
    IF Len(w) = 0 \/ buflen = 0 THEN {0} ELSE 1..Min(Len(w), buflen)

\* Name resolution: EspWifi (esp-app) and the host double WifiHelper.
MaxAnswers == 2     \* addresses one lookup returns

Resolvers == {"EspWifi", "WifiHelper"}

\* make_http_request asks for AddrType::IPv4.
RequestedAddrType == "IPv4"

SeqsUpTo(S, n) == UNION {[1..k -> S] : k \in 0..n}

\* What the lookup underneath a resolver yields: a failure or a list of
\* addresses.  The A query of embassy-net yields IpAddress values, a type
\* with the one variant Ipv4 in this build; lookup_host of tokio yields
\* socket addresses of both families.
Lookups(r) ==
    {[ok |-> FALSE, addrs |-> <<>>]}
    \cup {[ok |-> TRUE, addrs |-> a] :
            a \in SeqsUpTo(IF r = "EspWifi" THEN {"V4"} ELSE {"V4", "V6"}, MaxAnswers)}

DnsErr == [ok |-> FALSE, ip |-> "none"]
DnsOk(a) == [ok |-> TRUE, ip |-> a]

\* EspWifi::get_host_by_name.
EspGetHostByName(addr_type, found) ==
    IF addr_type = "IPv6" THEN DnsErr
    ELSE IF ~found.ok THEN DnsErr
    ELSE IF found.addrs = <<>> THEN DnsErr
    ELSE DnsOk(Head(found.addrs))

IsV4(a) == a = "V4"

\* WifiHelper::get_host_by_name returning the first address of any family.
WifiHelperAnyFamily(addr_type, found) ==
    IF ~found.ok THEN DnsErr
    ELSE IF found.addrs # <<>> /\ addr_type = "IPv4" THEN DnsOk(Head(found.addrs))
    ELSE DnsErr

\* WifiHelper::get_host_by_name: the V4 addresses of lookup_host, the first
\* of them for a request of IPv4, NotFound otherwise.
WifiHelperGetHostByName(addr_type, found) ==
    IF ~found.ok THEN DnsErr
    ELSE LET addrs == SelectSeq(found.addrs, IsV4)
         IN IF addrs # <<>> /\ addr_type = "IPv4" THEN DnsOk(Head(addrs))
            ELSE DnsErr

\* Dns::get_host_by_name of the implementation r.
get_host_by_name(r, addr_type, found) ==
    IF r = "EspWifi" THEN EspGetHostByName(addr_type, found)
    ELSE WifiHelperGetHostByName(addr_type, found)

\* No resolved address is held: before get_host_by_name returns and once
\* the address has been moved into connect.
NoIp == [resolver |-> "none", addrs |-> <<>>, kind |-> "none"]

\* The return of an error from an awaited call: `?` leaves the function.
ReturnErr(op) ==
    /\ result' = [tag |-> ErrTag(op), n |-> 0]
    /\ pc' = "idle"
    /\ sockets' = IF op = "resolve" THEN sockets ELSE DropTcp(sockets)
    /\ cancelAt' = "none"
    /\ ip' = NoIp
    /\ UNCHANGED <<peer_id, port, metadata, url, request, unsent, sent, wire,
                   rx_buf, ioLog, ioDone, lastRead, cycles>>

\* The url of make_tracker_request after set_query, for a URL that parsed.
AnnounceUrl(md, pid, prt) ==
    LET parsed == ParsedAnnounce[md.announce]
        tr == TrackerRequestNew(md.info_hash, pid, prt, md.length)
    IN IF parsed.ok
       THEN SetQuery(parsed, [some |-> TRUE, str |-> to_url_encoded(tr)])
       ELSE parsed

\* AnnounceUrl for the identity BitTorrenter::new sets, tabulated once.
NewAnnounceUrl == [md \in MetaInfos |-> AnnounceUrl(md, NewPeerId, NewPort)]

\* make_tracker_request up to the first suspension point.
StartCycle ==
    /\ pc = "idle"
    /\ cycles < MaxCycles
    /\ \E md \in MetaInfos :
        LET parsed == ParsedAnnounce[md.announce]
        IN /\ metadata' = md
           /\ cycles' = cycles + 1
           /\ rx_buf' = RxBufArg
           /\ result' = NoResult
           /\ lastRead' = NoRead
           /\ request' = <<>> /\ unsent' = <<>> /\ sent' = <<>> /\ wire' = <<>>
           /\ ioDone' = <<>>
           /\ IF ~parsed.ok
              THEN \* expect("Could not parse URL")
                   /\ pc' = "panicked"
                   /\ url' = parsed
                   /\ ioLog' = <<>>
              ELSE /\ url' = IF peer_id = NewPeerId /\ port = NewPort
                             THEN NewAnnounceUrl[md]
                             ELSE AnnounceUrl(md, peer_id, port)
                   /\ ioLog' = <<"resolve">>
                   /\ pc' = "resolve"
    /\ UNCHANGED <<peer_id, port, sockets, cancelAt, ip>>

\* get_host_by_name completes: Err leaves through `?`, Ok(V4) issues the
\* connect call, Ok(V6) reaches unreachable!.
ResolveDone ==
    /\ pc = "resolve"
    /\ \E r \in Resolvers : \E found \in Lookups(r) :
         LET ret == get_host_by_name(r, RequestedAddrType, found)
         IN IF ~ret.ok
            THEN ReturnErr("resolve")
            ELSE /\ ip' = [resolver |-> r, addrs |-> found.addrs, kind |-> ret.ip]
                 /\ ioDone' = Append(ioDone, "resolve")
                 /\ IF ret.ip = "V6"
                    THEN /\ pc' = "unreachable"
                         /\ UNCHANGED <<ioLog, sockets>>
                    ELSE /\ ioLog' = Append(ioLog, "connect")
                         /\ sockets' = sockets + 1
                         /\ pc' = "connect"
                 /\ UNCHANGED <<peer_id, port, metadata, url, request, unsent,
                                sent, wire, rx_buf, result, lastRead, cycles,
                                cancelAt>>

\* connect completes; on Ok the request is built and write_all begins.
ConnectDone ==
    /\ pc = "connect"
    /\ \/ ReturnErr("connect")
       \/ LET req == BuildRequest(url)
          IN /\ ioDone' = Append(ioDone, "connect")
             /\ ip' = NoIp
             /\ IF ~req.ok
                THEN \* unwrap of the failed write!
                     /\ pc' = "panicked"
                     /\ UNCHANGED <<request, unsent, ioLog>>
                ELSE /\ request' = req.str
                     /\ unsent' = req.str
                     /\ ioLog' = Append(ioLog, "write")
                     /\ pc' = "write"
             /\ UNCHANGED <<peer_id, port, sockets, metadata, url, sent, wire,
                            rx_buf, result, lastRead, cycles, cancelAt>>

\* One write() of write_all completes; when nothing is left, flush is issued.
WriteDone ==
    /\ pc = "write"
    /\ \/ ReturnErr("write")
       \/ \E k \in WriteSizes(Len(unsent)) :
            LET rest == From(unsent, k)
            IN /\ sent' = sent \o Upto(unsent, k)
               /\ unsent' = rest
               /\ IF WriteAllDone(rest)
                  THEN /\ ioDone' = Append(ioDone, "write")
                       /\ ioLog' = Append(ioLog, "flush")
                       /\ pc' = "flush"
                  ELSE UNCHANGED <<ioDone, ioLog, pc>>
               /\ UNCHANGED <<peer_id, port, sockets, metadata, url, request,
                              wire, rx_buf, result, lastRead, cycles, cancelAt, ip>>

\* flush completes; on Ok the single read is issued.
FlushDone ==
    /\ pc = "flush"
    /\ \/ ReturnErr("flush")
       \/ /\ ioDone' = Append(ioDone, "flush")
          /\ ioLog' = Append(ioLog, "read")
          /\ pc' = "read"
          /\ UNCHANGED <<peer_id, port, sockets, metadata, url, request, unsent,
                         sent, wire, rx_buf, result, lastRead, cycles, cancelAt,
                         ip>>

\* read completes; on Ok(b) make_http_request returns b and
\* make_tracker_request moves the body to the front of rx_buf.
ReadDone ==
    /\ pc = "read"
    /\ \/ ReturnErr("read")
       \/ \E w \in Responses : \E b \in ReadSizes(w, Len(rx_buf)) :
            LET filled == [i \in 1..Len(rx_buf) |-> IF i <= b THEN w[i] ELSE rx_buf[i]]
                body_start == http_header_end_pos(Upto(filled, b))
            IN /\ wire' = w
               /\ lastRead' = [buf |-> filled, n |-> b, done |-> TRUE]
               /\ rx_buf' = CopyWithin(filled, body_start, b)
               /\ result' = [tag |-> "Ok", n |-> b - body_start]
               /\ ioDone' = Append(ioDone, "read")
               /\ sockets' = DropTcp(sockets)
               /\ pc' = "idle"
               /\ cancelAt' = "none"
               /\ UNCHANGED <<peer_id, port, metadata, url, request, unsent,
                              sent, ioLog, cycles, ip>>

\* The caller abandons the call at a suspension point (drops the future).
Cancel ==
    /\ pc \in Suspended
    /\ sockets' = DropFuture(pc, sockets)
    /\ result' = [tag |-> "Cancelled", n |-> 0]
    /\ cancelAt' = pc
    /\ pc' = "idle"
    /\ ip' = NoIp
    /\ UNCHANGED <<peer_id, port, metadata, url, request, unsent, sent, wire,
                   rx_buf, ioLog, ioDone, lastRead, cycles>>

\* fs() and net(): each hands out a mutable borrow of its own field, which
\* needs the BitTorrenter not to be borrowed by a running call.  fsTakesPort
\* is an fs() that also clears the port.
fsTakesPort ==
    /\ pc = "idle"
    /\ port' = 0
    /\ UNCHANGED <<peer_id, sockets, pc, metadata, url, request, unsent, sent,
                   wire, rx_buf, result, ioLog, ioDone, lastRead, cycles, cancelAt,
                   ip>>

fs ==
    /\ pc = "idle"
    /\ UNCHANGED netVars

net ==
    /\ pc = "idle"
    /\ UNCHANGED netVars

NoDoc == [entries |-> <<>>, shape |-> "none"]

\* No percent_encode call, no TrackerRequest, no SimpleUrl and no
\* get_torrent_from_file call is in progress.
NoArgs == [info_hash |-> <<>>, peer_id |-> <<>>, port |-> 0, left |-> 0]
NoRequest == [info_hash |-> <<>>, peer_id |-> <<>>, port |-> 0,
              uploaded |-> 0, downloaded |-> 0, left |-> 0, compact |-> 0]
NoUrlDoc == [form |-> "none"]
NoGot == [read |-> FALSE, port |-> -1, path |-> <<>>, query |-> NoQuery, host |-> <<>>]
NoVolume == [torrents |-> FALSE, entries |-> <<>>]
NoName == [some |-> FALSE, name |-> <<>>]
NoRet == [tag |-> "none", bytes |-> <<>>, msg |-> ""]

EncOff ==
    /\ pe_bytes = <<>> /\ encoded = EmptyString /\ pe_prev = EmptyString
    /\ pe_calls = 0 /\ tr_args = NoArgs /\ tracker_request = NoRequest
    /\ url_encoded = <<>> /\ enc_pc = "off"

UrlOff ==
    /\ utext = <<>> /\ udoc = NoUrlDoc /\ parse_ret = NoUrl /\ simple_url = NoUrl
    /\ set_calls = <<>> /\ got = NoGot

NoDmaBuf == [some |-> FALSE, len |-> 0]
NoHeld == [spi |-> FALSE, t_buf |-> NoDmaBuf, r_buf |-> NoDmaBuf]

\* No EspSpiDma has been constructed.
NoFileSystem ==
    [open_dirs |-> {}, open_files |-> {}, next_id |-> 0, opened_dir |-> 0,
     open_file |-> 0, on_disk |-> {}, pc |-> "off"]

NoCall == [op |-> "none", ok |-> TRUE, opens |-> FALSE]

HandlesOff == file_system = NoFileSystem /\ fs_last = NoCall

DmaOff ==
    /\ dma_spi = FALSE /\ dma_tx_buf = NoDmaBuf /\ dma_rx_buf = NoDmaBuf
    /\ dma_pc = "off" /\ dma_held = NoHeld /\ dma_ret = "none" /\ dma_calls = 0

FsOff ==
    /\ fs_dirs = NoVolume /\ fs_pc = "off" /\ opened_dir = "root"
    /\ open_file = NoName /\ dir_idx = 0 /\ file_name = NoName /\ fs_ret = NoRet

ParseOff ==
    /\ input = <<>> /\ doc = NoDoc /\ pos = 0 /\ interval = [hi |-> 0, lo |-> 0]
    /\ peers = <<>> /\ pending = <<>> /\ pstate = "off" /\ perr = "none"
    /\ iters = 0

NetInit ==
    /\ peer_id = NewPeerId
    /\ port = NewPort
    /\ sockets = 0
    /\ pc = "idle"
    /\ metadata = NoMeta
    /\ url = NoUrl
    /\ request = <<>> /\ unsent = <<>> /\ sent = <<>> /\ wire = <<>>
    /\ rx_buf = RxBufArg
    /\ result = NoResult
    /\ ioLog = <<>> /\ ioDone = <<>>
    /\ lastRead = NoRead
    /\ cycles = 0 /\ cancelAt = "none"
    /\ ip = NoIp

InitAnnounce == NetInit /\ ParseOff /\ EncOff /\ UrlOff /\ FsOff /\ DmaOff /\ HandlesOff

NextAnnounce ==
    /\ \/ StartCycle
       \/ ResolveDone
       \/ ConnectDone
       \/ WriteDone
       \/ FlushDone
       \/ ReadDone
       \/ Cancel
       \/ fs
       \/ net
    /\ UNCHANGED <<parseVars, encVars, urlVars, fsVars, dmaVars, handleVars>>

SpecAnnounce == InitAnnounce /\ [][NextAnnounce]_vars

-----------------------------------------------------------------------------
(* Properties of the announce cycle                                         *)

IsPrefix(a, b) == Len(a) <= Len(b) /\ a = SubSeq(b, 1, Len(a))

Last(q) == q[Len(q)]

\* C4: within one call the I/O calls are issued in the order resolve,
\* connect, write, flush, read; a call is issued only when every earlier one
\* has completed with Ok (for the write: when the whole request has been
\* written), and the call returns Ok, with the header stripped, only after
\* the read has completed.
C4_SequentialIo ==
    /\ IsPrefix(ioLog, IoOrder)
    /\ IsPrefix(ioDone, ioLog)
    /\ Len(ioLog) - Len(ioDone) <= 1
    /\ (Len(ioLog) >= 4 => unsent = <<>> /\ sent = request)
    /\ (result.tag = "Ok" \/ lastRead.done => ioDone = IoOrder)

C4_Witness ==
    /\ result.tag = "Ok"
    /\ ioDone = IoOrder
    /\ result.n < lastRead.n

\* C5: no call of make_tracker_request panics, whatever the announce URL
\* and whichever I/O step fails.
C5_NeverPanics == pc # "panicked"

\* C6: a failed step ends the call at that step with one error: DnsError
\* for the resolver, TcpError for connect, write, flush and read; no call
\* after the failed one is issued, and no I/O call is issued twice.
C6_FailStop ==
    /\ \A i, j \in 1..Len(ioLog) : ioLog[i] = ioLog[j] => i = j
    /\ (result.tag = "DnsError" =>
            pc = "idle" /\ ioLog = <<"resolve">> /\ ioDone = <<>>)
    /\ (result.tag = "TcpError" =>
            /\ pc = "idle"
            /\ Len(ioLog) >= 2
            /\ Last(ioLog) \in {"connect", "write", "flush", "read"}
            /\ ioDone = SubSeq(ioLog, 1, Len(ioLog) - 1))
    /\ (pc = "idle" /\ Len(ioDone) < Len(ioLog) /\ result.tag # "Cancelled" =>
            result.tag = IF Last(ioLog) = "resolve" THEN "DnsError" ELSE "TcpError")

C6_Witness ==
    /\ result.tag = "TcpError"
    /\ ioLog = <<"resolve", "connect", "write", "flush">>
    /\ pc = "idle"

\* C7: at most one connection borrows the socket buffers; none is alive
\* when connect is about to be issued, and none once the call has returned.
C7_OneConnection ==
    /\ sockets \in {0, 1}
    /\ (pc \in {"idle", "resolve"} => sockets = 0)

C7_Witness ==
    /\ cycles = 2
    /\ pc = "flush"
    /\ sockets = 1
    /\ cancelAt = "none"

\* C8: abandoning a call at any suspension point releases the connection
\* opened so far, and a call that follows an abandoned one holds exactly its
\* own connection from connect on.
C8_CancelReleases ==
    cancelAt # "none" =>
        /\ (pc = "idle" => sockets = 0)
        /\ (pc = "resolve" => sockets = 0)
        /\ (pc \in {"connect", "write", "flush", "read"} => sockets = 1)

C8_Witness ==
    /\ cancelAt = "read"
    /\ cycles = 2
    /\ pc = "write"
    /\ sockets = 1

\* The index just past the first CR LF CR LF of the first b bytes of buf,
\* 0 when there is none.
BodyStart(buf, b) ==
    LET starts == {i \in 1..(b - 3) :
                     /\ buf[i] = CR /\ buf[i + 1] = LF
                     /\ buf[i + 2] = CR /\ buf[i + 3] = LF}
    IN IF starts = {} THEN 0
       ELSE (CHOOSE i \in starts : \A j \in starts : i <= j) + 3

WireRequest(md, pid, prt) ==
    LET su == SimpleUrlParse(md.announce)
        tr == TrackerRequestNew(md.info_hash, pid, prt, md.length)
    IN Concat(<<GetT, su.path, QMarkT, to_url_encoded(tr), HttpVersionT, CRLF,
                HostHeaderT, su.host, CRLF, ConnectionCloseT, CRLF, CRLF>>)

\* WireRequest of every torrent whose URL parses, for the identity
\* BitTorrenter::new sets, tabulated once.
NewWireRequest ==
    [md \in {m \in MetaInfos : ParsedAnnounce[m.announce].ok} |->
        WireRequest(md, NewPeerId, NewPort)]

\* The request text of the wire format for the metadata of the running call.
ExpectedRequest ==
    IF peer_id = NewPeerId /\ port = NewPort /\ metadata \in DOMAIN NewWireRequest
    THEN NewWireRequest[metadata]
    ELSE WireRequest(metadata, peer_id, port)

\* C10: what has been written on the connection when flush is issued is
\* exactly GET {path}?{query} HTTP/1.1 CRLF Host: {host} CRLF
\* Connection: close CRLF CRLF, and before that a prefix of it.
C10_RequestBytes ==
    /\ (Len(ioLog) >= 3 => IsPrefix(sent, ExpectedRequest))
    /\ (Len(ioLog) >= 4 => sent = ExpectedRequest)

C10_Witness ==
    /\ pc = "read"
    /\ metadata.announce = HttpT \o HostT \o PortPathQueryT
    /\ metadata.length = 92063

\* C28: the IPv6 arm of make_http_request is never reached: the address a
\* resolver returns for the IPv4 request of the orchestrator is an IPv4
\* address, with EspWifi and with WifiHelper, whatever the lookup yields.
C28_Ipv6Unreachable ==
    /\ pc # "unreachable"
    /\ RequestedAddrType = "IPv4"
    /\ (ip # NoIp => pc = "connect" /\ ip.kind = "V4")

C28_Witness ==
    /\ pc = "connect"
    /\ ip.resolver = "WifiHelper"
    /\ ip.addrs = <<"V6", "V4">>
    /\ ip.kind = "V4"

\* C24: when make_http_request has returned Ok(n), the first n bytes of
\* rx_buf as it returned them are the whole response the tracker sent,
\* whatever the sizes of the reads the transport completed.
C24_WholeResponse ==
    lastRead.done =>
        /\ lastRead.n = Len(wire)
        /\ Upto(lastRead.buf, lastRead.n) = wire

-----------------------------------------------------------------------------
(* BencodeParser (bencode crate): a cursor over a byte slice.  Every         *)
(* operation returns [ok |-> TRUE, pos, val] or [ok |-> FALSE, err].         *)

Ok(p, v) == [ok |-> TRUE, pos |-> p, val |-> v]
Err(e) == [ok |-> FALSE, err |-> e]

IsDigit(b) == b >= A("0") /\ b <= A("9")

\* The byte at the 0-based cursor p.
At(inp, p) == inp[p + 1]

\* The run of decimal digits at p: its value and the cursor after it.
RECURSIVE ReadDigits(_, _, _)
ReadDigits(inp, p, acc) ==
    IF p < Len(inp) /\ IsDigit(At(inp, p))
    THEN ReadDigits(inp, p + 1, acc * 10 + (At(inp, p) - A("0")))
    ELSE [pos |-> p, val |-> acc]

\* expect_dict_start: consumes 'd', ExpectedDict when it is absent.
expect_dict_start(inp, p) ==
    IF p < Len(inp) /\ At(inp, p) = A("d") THEN Ok(p + 1, TRUE)
    ELSE Err("ExpectedDict")

\* match_dict_end: consumes 'e' and answers TRUE, else answers FALSE
\* without advancing.
match_dict_end(inp, p) ==
    IF p < Len(inp) /\ At(inp, p) = A("e") THEN Ok(p + 1, TRUE)
    ELSE Ok(p, FALSE)

\* parse_raw_value: the payload of a <len>:<bytes> string, unvalidated.
parse_raw_value(inp, p) ==
    IF p >= Len(inp) THEN Err("UnexpectedEof")
    ELSE IF ~IsDigit(At(inp, p)) THEN Err("ExpectedString")
    ELSE LET d == ReadDigits(inp, p, 0) IN
         IF d.pos >= Len(inp) THEN Err("UnexpectedEof")
         ELSE IF At(inp, d.pos) # A(":") THEN Err("InvalidSyntax")
         ELSE IF d.pos + 1 + d.val > Len(inp) THEN Err("UnexpectedEof")
         ELSE Ok(d.pos + 1 + d.val, SubSeq(inp, d.pos + 2, d.pos + 1 + d.val))

\* UTF-8 validity, for the texts of this model: ASCII bytes only are valid
\* (no input of the model carries a multi-byte sequence).
IsUtf8(bytes) == \A i \in 1..Len(bytes) : bytes[i] < 128

\* parse_str: parse_raw_value followed by UTF-8 validation.
parse_str(inp, p) ==
    LET r == parse_raw_value(inp, p)
    IN IF r.ok /\ ~IsUtf8(r.val) THEN Err("InvalidUtf8") ELSE r

\* A signed integer as sign and magnitude hi * 65536 + lo.
RECURSIVE ReadInt(_, _, _)
ReadInt(inp, p, acc) ==
    IF p < Len(inp) /\ IsDigit(At(inp, p))
    THEN LET l == acc.lo * 10 + (At(inp, p) - A("0"))
         IN ReadInt(inp, p + 1,
                    [hi |-> acc.hi * 10 + (l \div 65536), lo |-> l % 65536])
    ELSE [pos |-> p, val |-> acc]

\* parse_int: i, an optional '-', one or more digits, e.
parse_int(inp, p) ==
    IF p >= Len(inp) THEN Err("UnexpectedEof")
    ELSE IF At(inp, p) # A("i") THEN Err("ExpectedInteger")
    ELSE LET neg == p + 1 < Len(inp) /\ At(inp, p + 1) = A("-")
             start == IF neg THEN p + 2 ELSE p + 1
             d == ReadInt(inp, start, [hi |-> 0, lo |-> 0])
         IN IF d.pos >= Len(inp) THEN Err("UnexpectedEof")
            ELSE IF d.pos = start \/ At(inp, d.pos) # A("e") THEN Err("ExpectedInteger")
            ELSE Ok(d.pos + 1, [neg |-> neg, hi |-> d.val.hi, lo |-> d.val.lo])

\* skip_any: consumes one value of any type; lists and dictionaries
\* recursively, up to their 'e'.
RECURSIVE skip_any(_, _)
RECURSIVE SkipItems(_, _, _)
SkipItems(inp, p, keyed) ==
    IF p >= Len(inp) THEN Err("UnexpectedEof")
    ELSE IF At(inp, p) = A("e") THEN Ok(p + 1, TRUE)
    ELSE LET k == IF keyed THEN parse_raw_value(inp, p) ELSE Ok(p, TRUE)
         IN IF ~k.ok THEN k
            ELSE LET v == skip_any(inp, k.pos)
                 IN IF ~v.ok THEN v ELSE SkipItems(inp, v.pos, keyed)

skip_any(inp, p) ==
    IF p >= Len(inp) THEN Err("UnexpectedEof")
    ELSE IF At(inp, p) = A("i") THEN parse_int(inp, p)
    ELSE IF IsDigit(At(inp, p)) THEN parse_raw_value(inp, p)
    ELSE IF At(inp, p) = A("l") THEN SkipItems(inp, p + 1, FALSE)
    ELSE IF At(inp, p) = A("d") THEN SkipItems(inp, p + 1, TRUE)
    ELSE Err("InvalidSyntax")

-----------------------------------------------------------------------------
(* TrackerResponse::parse (core-logic/src/core/tracker.rs)                  *)

PeersCap == 10
ChunkLen == 6

IntervalKeyT == T(<<"i", "n", "t", "e", "r", "v", "a", "l">>)
PeersKeyT == T(<<"p", "e", "e", "r", "s">>)

\* `as u32` of a signed integer: the low 32 bits of its two's complement.
AsU32(v) ==
    LET h == v.hi % 65536
    IN IF ~v.neg \/ (h = 0 /\ v.lo = 0) THEN [hi |-> h, lo |-> v.lo]
       ELSE [hi |-> (65535 - h + (IF v.lo = 0 THEN 1 ELSE 0)) % 65536,
             lo |-> (65536 - v.lo) % 65536]

\* as_chunks::<6>().0: the complete 6-byte chunks, the remainder dropped.
AsChunks(bytes) ==
    [j \in 1..(Len(bytes) \div ChunkLen) |->
        SubSeq(bytes, ChunkLen * (j - 1) + 1, ChunkLen * j)]

\* Iterator::take(n).
Take(q, n) == SubSeq(q, 1, Min(n, Len(q)))

\* The closure mapping a chunk to a SocketAddrV4 (u16::from_be_bytes).
ChunkToAddr(chunk) ==
    [ip |-> <<chunk[1], chunk[2], chunk[3], chunk[4]>>,
     port |-> chunk[5] * 256 + chunk[6]]

\* BencodeParser::new and expect_dict_start?.
ParseBegin ==
    /\ pstate = "start"
    /\ LET r == expect_dict_start(input, pos)
       IN IF r.ok
          THEN pos' = r.pos /\ pstate' = "loop" /\ perr' = perr
          ELSE pos' = pos /\ pstate' = "err" /\ perr' = r.err
    /\ UNCHANGED <<input, doc, interval, peers, pending, iters>>

\* ParseFail that swallows the error and goes round the loop again.
ParseFailRetry(r) ==
    /\ pstate' = pstate
    /\ perr' = perr
    /\ UNCHANGED <<pos, interval, peers, pending>>

\* The `?` of a failed parser call inside the loop.
ParseFail(r) ==
    /\ pstate' = "err"
    /\ perr' = r.err
    /\ UNCHANGED <<pos, interval, peers, pending>>

\* ParseIter whose arm for other keys leaves the value where it is.
ParseIterNoSkip ==
    /\ pstate = "loop"
    /\ iters' = iters + 1
    /\ LET m == match_dict_end(input, pos) IN
       IF m.val
       THEN /\ pos' = m.pos
            /\ pstate' = "ok"
            /\ UNCHANGED <<interval, peers, pending, perr>>
       ELSE
       LET key == parse_str(input, m.pos) IN
       IF ~key.ok THEN ParseFail(key)
       ELSE IF key.val = IntervalKeyT
       THEN LET v == parse_int(input, key.pos)
            IN IF ~v.ok THEN ParseFail(v)
               ELSE /\ interval' = AsU32(v.val)
                    /\ pos' = v.pos
                    /\ UNCHANGED <<peers, pending, pstate, perr>>
       ELSE IF key.val = PeersKeyT
       THEN LET raw == parse_raw_value(input, key.pos)
            IN IF ~raw.ok THEN ParseFail(raw)
               ELSE LET chunks == Take(AsChunks(raw.val), PeersCap)
                    IN /\ pending' = chunks
                       /\ pos' = raw.pos
                       /\ pstate' = IF chunks = <<>> THEN "loop" ELSE "extend"
                       /\ UNCHANGED <<interval, peers, perr>>
       ELSE /\ pos' = key.pos
            /\ UNCHANGED <<interval, peers, pending, pstate, perr>>
    /\ UNCHANGED <<input, doc>>

\* One iteration of `while !p.match_dict_end()`: the test, the key and the
\* match arm, up to the beginning of peers.extend.
ParseIter ==
    /\ pstate = "loop"
    /\ iters' = iters + 1
    /\ LET m == match_dict_end(input, pos) IN
       IF m.val
       THEN /\ pos' = m.pos
            /\ pstate' = "ok"
            /\ UNCHANGED <<interval, peers, pending, perr>>
       ELSE
       LET key == parse_str(input, m.pos) IN
       IF ~key.ok THEN ParseFail(key)
       ELSE IF key.val = IntervalKeyT
       THEN LET v == parse_int(input, key.pos)
            IN IF ~v.ok THEN ParseFail(v)
               ELSE /\ interval' = AsU32(v.val)
                    /\ pos' = v.pos
                    /\ UNCHANGED <<peers, pending, pstate, perr>>
       ELSE IF key.val = PeersKeyT
       THEN LET raw == parse_raw_value(input, key.pos)
            IN IF ~raw.ok THEN ParseFail(raw)
               ELSE LET chunks == Take(AsChunks(raw.val), PeersCap)
                    IN /\ pending' = chunks
                       /\ pos' = raw.pos
                       /\ pstate' = IF chunks = <<>> THEN "loop" ELSE "extend"
                       /\ UNCHANGED <<interval, peers, perr>>
       ELSE LET sk == skip_any(input, key.pos)
            IN IF ~sk.ok THEN ParseFail(sk)
               ELSE /\ pos' = sk.pos
                    /\ UNCHANGED <<interval, peers, pending, pstate, perr>>
    /\ UNCHANGED <<input, doc>>

\* One step of heapless Vec::extend: push(elem).ok().unwrap(), which panics
\* when the vector is full.
ExtendPush ==
    /\ pstate = "extend"
    /\ IF Len(peers) >= PeersCap
       THEN /\ pstate' = "panic"
            /\ UNCHANGED <<peers, pending>>
       ELSE /\ peers' = Append(peers, ChunkToAddr(Head(pending)))
            /\ pending' = Tail(pending)
            /\ pstate' = IF Tail(pending) = <<>> THEN "loop" ELSE "extend"
    /\ UNCHANGED <<input, doc, pos, interval, perr, iters>>

-----------------------------------------------------------------------------
(* Inputs of TrackerResponse::parse                                         *)

MaxEntries == 3     \* dictionary entries of a generated response

\* Integer tokens with their values (sign, magnitude hi * 65536 + lo):
\* 1800, -1 and 2^32 + 1.
IntTokens ==
    { [text |-> T(<<"1", "8", "0", "0">>), neg |-> FALSE, hi |-> 0, lo |-> 1800],
      [text |-> T(<<"-", "1">>), neg |-> TRUE, hi |-> 0, lo |-> 1],
      [text |-> T(<<"4", "2", "9", "4", "9", "6", "7", "2", "9", "7">>),
       neg |-> FALSE, hi |-> 65536, lo |-> 1] }

\* (records, trailing bytes) of the generated peers payloads.
PeerShapes == {<<0, 0>>, <<3, 0>>, <<10, 0>>, <<11, 0>>, <<1, 2>>}

\* Payloads with trailing bytes, decoded as the only entry of a response:
\* shorter than one record, one or ten records and a rest, more than ten
\* records and a rest.
TailShapes == {<<0, 1>>, <<0, 5>>, <<1, 5>>, <<10, 3>>, <<11, 1>>}

\* The j-th compact peer record: 192.168.0.j, port 6880 + j.
PeerRecord(j) == <<192, 168, 0, j, 26, 224 + j>>
PeerAddr(j) == [ip |-> <<192, 168, 0, j>>, port |-> 6880 + j]

PeerPayload(n, extra) == Concat([j \in 1..n |-> PeerRecord(j)]) \o Rep(255, extra)

\* <len>:<bytes>
BStr(b) == Dec(Len(b)) \o ColonT \o b

\* Entries under other keys: an integer, a list nesting a list and a
\* dictionary, a string spelling peers, and a dictionary holding an
\* interval key of its own.
OtherEntries ==
    { [kind |-> "other", key |-> T(<<"c", "o", "m", "p", "l", "e", "t", "e">>),
       value |-> T(<<"i", "5", "e">>)],
      [kind |-> "other", key |-> T(<<"t", "r", "a", "c", "k", "e", "r", " ", "i", "d">>),
       value |-> T(<<"5", ":", "p", "e", "e", "r", "s">>)],
      [kind |-> "other", key |-> T(<<"y">>),
       value |-> T(<<"d", "8", ":", "i", "n", "t", "e", "r", "v", "a", "l",
                     "i", "7", "e", "e">>)],
      [kind |-> "other", key |-> T(<<"x">>),
       value |-> T(<<"l", "i", "1", "e", "l", "e", "d", "1", ":", "a",
                     "2", ":", "b", "c", "e", "e">>)] }

Entries ==
    { [kind |-> "interval", tok |-> t] : t \in IntTokens }
    \cup { [kind |-> "peers", n |-> sh[1], extra |-> sh[2]] : sh \in PeerShapes }
    \cup OtherEntries

EncodeEntry(e) ==
    IF e.kind = "interval"
    THEN BStr(IntervalKeyT) \o T(<<"i">>) \o e.tok.text \o T(<<"e">>)
    ELSE IF e.kind = "peers"
    THEN BStr(PeersKeyT) \o BStr(PeerPayload(e.n, e.extra))
    ELSE BStr(e.key) \o e.value

EncodeDict(es) ==
    T(<<"d">>) \o Concat([i \in 1..Len(es) |-> EncodeEntry(es[i])]) \o T(<<"e">>)

EntrySeqs == UNION {[1..k -> Entries] : k \in 0..MaxEntries}

\* The truncated responses are cut from dictionaries of at most two entries.
MaxCutEntries == 2

\* Cut points of a truncated response: the closing e lost, half of it lost,
\* all but the d lost, everything lost.
Cuts(bytes) == {Len(bytes) - 1, Len(bytes) \div 2, 1, 0}

\* Inputs that are no dictionary of byte-string keys, or carry a value of
\* the wrong type or a key that is no UTF-8.
RawInputs ==
    { T(<<"i", "5", "e">>),
      T(<<"l", "e">>),
      T(<<"d", "i", "1", "e", "i", "2", "e", "e">>),
      T(<<"d", "5", ":", "p", "e", "e", "r", "s", "l", "e", "e">>),
      T(<<"d", "8", ":", "i", "n", "t", "e", "r", "v", "a", "l", "2", ":", "a", "b", "e">>),
      T(<<"d", "1", ":">>) \o <<255>> \o T(<<"i", "1", "e", "e">>),
      T(<<"d", "1", ":", "a", "i", "e", "e">>),
      T(<<"d", "1", ":", "a", "x", "e">>) }

\* ParseStart with the interval local starting at 1.
ParseStartOne ==
    /\ pos = 0 /\ interval = [hi |-> 0, lo |-> 1] /\ peers = <<>>
    /\ pending = <<>> /\ pstate = "start" /\ perr = "none" /\ iters = 0

\* The locals of parse before expect_dict_start.
ParseStart ==
    /\ pos = 0 /\ interval = [hi |-> 0, lo |-> 0] /\ peers = <<>>
    /\ pending = <<>> /\ pstate = "start" /\ perr = "none" /\ iters = 0

InitParse ==
    /\ NetInit /\ EncOff /\ UrlOff /\ FsOff /\ DmaOff /\ HandlesOff
    /\ ParseStart
    /\ \/ \E es \in EntrySeqs :
            /\ doc = [entries |-> es, shape |-> "dict"]
            /\ input = EncodeDict(es)
       \/ \E es \in EntrySeqs : \E c \in Cuts(EncodeDict(es)) :
            /\ Len(es) <= MaxCutEntries
            /\ doc = [entries |-> es, shape |-> "cut"]
            /\ input = Upto(EncodeDict(es), c)
       \/ \E sh \in TailShapes :
            LET es == <<[kind |-> "peers", n |-> sh[1], extra |-> sh[2]]>>
            IN /\ doc = [entries |-> es, shape |-> "dict"]
               /\ input = EncodeDict(es)
       \/ \E r \in RawInputs :
            /\ doc = [entries |-> <<>>, shape |-> "raw"]
            /\ input = r

NextParse ==
    /\ \/ ParseBegin
       \/ ParseIter
       \/ ExtendPush
    /\ UNCHANGED <<netVars, encVars, urlVars, fsVars, dmaVars, handleVars>>

SpecParse == InitParse /\ [][NextParse]_vars

-----------------------------------------------------------------------------
(* Properties of TrackerResponse::parse                                     *)

ParseDone == pstate \in {"ok", "err", "panic"}

EntriesOf(kind) == {i \in 1..Len(doc.entries) : doc.entries[i].kind = kind}

\* A complete dictionary whose keys are all different.
UniqueKeys ==
    /\ doc.shape = "dict"
    /\ Cardinality(EntriesOf("interval")) <= 1
    /\ Cardinality(EntriesOf("peers")) <= 1
    /\ \A i, j \in EntriesOf("other") :
          doc.entries[i].key = doc.entries[j].key => i = j

\* The first min(n, 10) generated peer records as socket addresses.
FirstPeers(n) == [j \in 1..Min(n, PeersCap) |-> PeerAddr(j)]

\* The decoded interval is the integer of the token.
IntervalIs(tok) ==
    /\ ~tok.neg
    /\ tok.hi < 65536
    /\ interval = [hi |-> tok.hi, lo |-> tok.lo]

\* C1: a well-formed dictionary with an interval integer and a peers string
\* of 6k bytes decodes to Ok with that interval and the first min(k, 10)
\* records as peers, in payload order.
C1_DecodesIntervalAndPeers ==
    ParseDone /\ UniqueKeys
      /\ EntriesOf("interval") # {} /\ EntriesOf("peers") # {}
      /\ (\A i \in EntriesOf("peers") : doc.entries[i].extra = 0)
    =>  /\ pstate = "ok"
        /\ \A i \in EntriesOf("interval") : IntervalIs(doc.entries[i].tok)
        /\ \A i \in EntriesOf("peers") : peers = FirstPeers(doc.entries[i].n)

\* C2: TrackerResponse::parse returns Ok or a bencode Error on every input
\* and never panics.
C2_ParseNeverPanics == pstate # "panic"

\* C3: the peer list never holds more than 10 entries, and a peers payload
\* of more than 10 records yields Ok with exactly its first 10 records.
C3_TenPeersNoError ==
    /\ Len(peers) <= PeersCap
    /\ (ParseDone /\ doc.shape = "dict"
          /\ (\E i \in EntriesOf("peers") : doc.entries[i].n > PeersCap)
        =>  /\ pstate = "ok"
            /\ Len(peers) = PeersCap
            /\ (Cardinality(EntriesOf("peers")) = 1 => peers = FirstPeers(PeersCap)))

\* TrackerResponse::parse run to its end on an input: the loop of ParseIter
\* and ExtendPush as one function of the cursor and the two locals.
RECURSIVE ParseLoop(_, _, _, _)
ParseLoop(inp, p, iv, ps) ==
    LET m == match_dict_end(inp, p)
        failed(r) == [state |-> "err", err |-> r.err, interval |-> iv, peers |-> ps]
    IN
    IF m.val THEN [state |-> "ok", err |-> "none", interval |-> iv, peers |-> ps]
    ELSE
    LET key == parse_str(inp, m.pos) IN
    IF ~key.ok THEN failed(key)
    ELSE IF key.val = IntervalKeyT
    THEN LET v == parse_int(inp, key.pos)
         IN IF ~v.ok THEN failed(v) ELSE ParseLoop(inp, v.pos, AsU32(v.val), ps)
    ELSE IF key.val = PeersKeyT
    THEN LET raw == parse_raw_value(inp, key.pos)
         IN IF ~raw.ok THEN failed(raw)
            ELSE LET chunks == Take(AsChunks(raw.val), PeersCap)
                     addrs == [j \in 1..Len(chunks) |-> ChunkToAddr(chunks[j])]
                 IN IF Len(ps) + Len(addrs) > PeersCap
                    THEN [state |-> "panic", err |-> "none", interval |-> iv,
                          peers |-> ps \o SubSeq(addrs, 1, PeersCap - Len(ps))]
                    ELSE ParseLoop(inp, raw.pos, iv, ps \o addrs)
    ELSE LET sk == skip_any(inp, key.pos)
         IN IF ~sk.ok THEN failed(sk) ELSE ParseLoop(inp, sk.pos, iv, ps)

TrackerResponseParse(inp) ==
    LET d == expect_dict_start(inp, 0)
    IN IF ~d.ok
       THEN [state |-> "err", err |-> d.err, interval |-> [hi |-> 0, lo |-> 0],
             peers |-> <<>>]
       ELSE ParseLoop(inp, d.pos, [hi |-> 0, lo |-> 0], <<>>)

\* The entries of a generated response under interval and peers.
IsKnown(e) == e.kind # "other"
Known(es) == SelectSeq(es, IsKnown)

\* C20: a response with entries under other keys, whatever their values and
\* wherever they stand, is decoded without a bencode error, and the outcome,
\* the interval and the peer list are those of the response without these
\* entries.
C20_UnknownKeysSkipped ==
    ParseDone /\ doc.shape = "dict" /\ EntriesOf("other") # {} =>
        LET ref == TrackerResponseParse(EncodeDict(Known(doc.entries)))
        IN /\ pstate # "err"
           /\ pstate = ref.state
           /\ interval = ref.interval
           /\ peers = ref.peers

C20_Witness ==
    /\ pstate = "ok"
    /\ Len(doc.entries) = 3
    /\ doc.entries[1].kind = "peers" /\ doc.entries[1].n = 3
    /\ doc.entries[2].kind = "other" /\ doc.entries[2].key = T(<<"y">>)
    /\ doc.entries[3].kind = "interval"
    /\ interval = [hi |-> 0, lo |-> 1800]
    /\ peers = FirstPeers(3)

\* C23: parse returns Ok only for an input that starts with d and whose
\* dictionary it has read up to the closing e; an input that does not start
\* with d yields ExpectedDict; a dictionary cut before its closing e yields
\* an error, never Ok.
C23_OkOnlyClosedDict ==
    /\ (pstate = "ok" =>
            /\ doc.shape # "cut"
            /\ pos >= 2 /\ input[1] = A("d") /\ input[pos] = A("e"))
    /\ (ParseDone /\ (input = <<>> \/ input[1] # A("d")) =>
            pstate = "err" /\ perr = "ExpectedDict")
    /\ (ParseDone /\ doc.shape = "cut" => pstate = "err")

\* C23 apart from the calls that end in the panic of peers.extend.
C23_UnlessExtendPanics == pstate # "panic" => C23_OkOnlyClosedDict

\* The entry under the last interval key of the generated response.
LastInterval ==
    doc.entries[CHOOSE i \in EntriesOf("interval") :
                    \A j \in EntriesOf("interval") : j <= i]

\* C25: when parse returns Ok for a dictionary with an interval key, the
\* interval is the integer of the token that was read: a token that is
\* negative or above 2^32 - 1 does not come back as another number.
C25_IntervalIsToken ==
    pstate = "ok" /\ doc.shape = "dict" /\ EntriesOf("interval") # {} =>
        IntervalIs(LastInterval.tok)

\* C26: a complete dictionary with distinct keys that has no interval key,
\* no peers key, or neither, is decoded as Ok, with interval 0 when interval
\* is missing and no peer when peers is missing.
C26_MissingKeysDefault ==
    ParseDone /\ UniqueKeys =>
        /\ (EntriesOf("interval") = {} \/ EntriesOf("peers") = {} => pstate = "ok")
        /\ (EntriesOf("interval") = {} => interval = [hi |-> 0, lo |-> 0])
        /\ (EntriesOf("peers") = {} => peers = <<>>)

C26_Witness ==
    /\ pstate = "ok"
    /\ doc.shape = "dict"
    /\ Len(doc.entries) = 2
    /\ doc.entries[1].kind = "other" /\ doc.entries[2].kind = "other"
    /\ doc.entries[1].key # doc.entries[2].key
    /\ interval = [hi |-> 0, lo |-> 0]
    /\ peers = <<>>

\* C27: a response with a peers payload whose length is no multiple of 6
\* is decoded as Ok, and the peers of a payload of len bytes are its first
\* min(len \div 6, 10) records, the len % 6 trailing bytes left out; none
\* when len < 6.
C27_TrailingBytesIgnored ==
    ParseDone /\ doc.shape = "dict"
      /\ (\E i \in EntriesOf("peers") : doc.entries[i].extra > 0)
    =>  /\ pstate = "ok"
        /\ (Cardinality(EntriesOf("peers")) = 1 =>
                \A i \in EntriesOf("peers") : peers = FirstPeers(doc.entries[i].n))

\* C27 for the responses with one peers key.
C27_OnePeersKey ==
    Cardinality(EntriesOf("peers")) = 1 => C27_TrailingBytesIgnored

\* C21: parse terminates on every finite input: the cursor never moves
\* backwards and never passes the end of the input, every iteration of the
\* loop advances it by at least one byte or returns an error, an iteration
\* begun at the end of the input returns an error, and so the loop runs at
\* most once per input byte.
C21_Terminates ==
    /\ [](pos <= Len(input) /\ iters <= pos + 1)
    /\ [][/\ pos' >= pos
          /\ (iters' = iters + 1 => pos' > pos \/ pstate' = "err")
          /\ (iters' = iters + 1 /\ pos = Len(input) => pstate' = "err")]_vars

C21_Witness ==
    /\ doc.shape = "cut"
    /\ pstate = "err"
    /\ perr = "UnexpectedEof"
    /\ pos = Len(input)
    /\ iters = 2

-----------------------------------------------------------------------------
(* Calls of percent_encode (net.rs) and of TrackerRequest (tracker.rs)      *)

MaxEncCalls == 2    \* calls of percent_encode on one argument

OnesId == Rep(1, 20)

\* Arguments of percent_encode: every single byte, every 20-byte array of
\* one byte value, the sample info hash, the empty slice, a slice of 21 bytes.
ByteInputs ==
    {<<b>> : b \in 0..255} \cup {Rep(b, 20) : b \in 0..255}
    \cup {SampleHash, <<>>, Rep(7, 21)}

\* Arguments of TrackerRequest::new: those of the unit test, and others.
TestArgs == [info_hash |-> ZeroHash, peer_id |-> OnesId, port |-> 6881, left |-> 1000]

RequestArgs ==
    [info_hash : {ZeroHash, SampleHash}, peer_id : {NewPeerId, OnesId},
     port : {0, 6881, 65535}, left : {0, 1000, 92063, 2147483647}]

\* percent_encode(bytes); the unwrap of a failed write! panics.
PercentEncodeCall ==
    /\ enc_pc \in {"new", "made", "encoded"}
    /\ pe_calls < MaxEncCalls
    /\ LET r == percent_encode(pe_bytes)
       IN /\ encoded' = r
          /\ pe_prev' = encoded
          /\ pe_calls' = pe_calls + 1
          /\ enc_pc' = IF r.ok THEN enc_pc ELSE "panicked"
    /\ UNCHANGED <<pe_bytes, tr_args, tracker_request, url_encoded>>

\* TrackerRequest::new(info_hash, peer_id, port, left).
NewRequest ==
    /\ enc_pc = "new"
    /\ tracker_request' = TrackerRequestNew(tr_args.info_hash, tr_args.peer_id,
                                            tr_args.port, tr_args.left)
    /\ enc_pc' = "made"
    /\ UNCHANGED <<pe_bytes, encoded, pe_prev, pe_calls, tr_args, url_encoded>>

\* tracker_request.to_url_encoded().
ToUrlEncoded ==
    /\ enc_pc = "made"
    /\ url_encoded' = to_url_encoded(tracker_request)
    /\ enc_pc' = "encoded"
    /\ UNCHANGED <<pe_bytes, encoded, pe_prev, pe_calls, tr_args, tracker_request>>

InitEncode ==
    /\ NetInit /\ ParseOff /\ UrlOff /\ FsOff /\ DmaOff /\ HandlesOff
    /\ encoded = EmptyString /\ pe_prev = EmptyString /\ pe_calls = 0
    /\ tracker_request = NoRequest /\ url_encoded = <<>> /\ enc_pc = "new"
    /\ \/ pe_bytes \in ByteInputs /\ tr_args = TestArgs
       \/ pe_bytes = ZeroHash /\ tr_args \in RequestArgs

NextEncode ==
    /\ \/ PercentEncodeCall
       \/ NewRequest
       \/ ToUrlEncoded
    /\ UNCHANGED <<netVars, parseVars, urlVars, fsVars, dmaVars, handleVars>>

SpecEncode == InitEncode /\ [][NextEncode]_vars

-----------------------------------------------------------------------------
(* Properties of percent_encode and to_url_encoded                          *)

\* The pieces of s between the occurrences of the byte sep.
RECURSIVE Split(_, _)
Split(s, sep) ==
    LET i == Find(s, <<sep>>)
    IN IF i = -1 THEN <<s>> ELSE <<Upto(s, i)>> \o Split(From(s, i + 1), sep)

\* A query read back as name=value fields separated by &.
Fields(q) ==
    LET pieces == Split(q, A("&"))
    IN [i \in 1..Len(pieces) |->
          LET e == Find(pieces[i], <<A("=")>>)
          IN IF e = -1 THEN [eq |-> FALSE, name |-> pieces[i], value |-> <<>>]
             ELSE [eq |-> TRUE, name |-> Upto(pieces[i], e),
                   value |-> From(pieces[i], e + 1)]]

\* The value of an uppercase hexadecimal digit, -1 for any other character.
HexVal(c) ==
    IF c >= A("0") /\ c <= A("9") THEN c - A("0")
    ELSE IF c >= A("A") /\ c <= A("F") THEN c - A("A") + 10
    ELSE -1

\* s is % followed by the two uppercase hexadecimal digits of b.
IsEscapeOf(s, b) ==
    /\ Len(s) = 3
    /\ s[1] = A("%")
    /\ HexVal(s[2]) # -1 /\ HexVal(s[3]) # -1
    /\ 16 * HexVal(s[2]) + HexVal(s[3]) = b

\* s is the concatenation of the escapes of the bytes, in their order.
IsEscapeOfAll(s, bytes) ==
    /\ Len(s) = 3 * Len(bytes)
    /\ \A i \in 1..Len(bytes) : IsEscapeOf(SubSeq(s, 3 * i - 2, 3 * i), bytes[i])

\* The number written by decimal digits without sign or leading zero, -1
\* for any other text.
RECURSIVE DigitsVal(_, _)
DigitsVal(s, acc) ==
    IF s = <<>> THEN acc
    ELSE IF Head(s) < A("0") \/ Head(s) > A("9") THEN -1
    ELSE DigitsVal(Tail(s), acc * 10 + (Head(s) - A("0")))

DecVal(s) ==
    IF s = <<>> \/ (Len(s) > 1 /\ Head(s) = A("0")) THEN -1 ELSE DigitsVal(s, 0)

FieldNames ==
    << T(<<"i","n","f","o","_","h","a","s","h">>), T(<<"p","e","e","r","_","i","d">>),
       T(<<"p","o","r","t">>), T(<<"u","p","l","o","a","d","e","d">>),
       T(<<"d","o","w","n","l","o","a","d","e","d">>), T(<<"l","e","f","t">>),
       T(<<"c","o","m","p","a","c","t">>) >>

\* q holds exactly the seven fields of the request tr, in order.
IsQueryOf(q, tr) ==
    LET f == Fields(q)
    IN /\ Len(f) = 7
       /\ \A i \in 1..7 : f[i].eq /\ f[i].name = FieldNames[i]
       /\ IsEscapeOfAll(f[1].value, tr.info_hash)
       /\ IsEscapeOfAll(f[2].value, tr.peer_id)
       /\ DecVal(f[3].value) = tr.port
       /\ DecVal(f[4].value) = tr.uploaded
       /\ DecVal(f[5].value) = tr.downloaded
       /\ DecVal(f[6].value) = tr.left
       /\ DecVal(f[7].value) = tr.compact

\* C11: to_url_encoded yields exactly the seven fields info_hash, peer_id,
\* port, uploaded, downloaded, left, compact in that order, each name=value
\* with the value of the request, joined by single &, with no separator at
\* either end and no other field.
C11_SevenFields ==
    enc_pc = "encoded" => IsQueryOf(url_encoded, tracker_request)

C11_Witness ==
    /\ enc_pc = "encoded"
    /\ tr_args.info_hash = SampleHash
    /\ tr_args.port = 65535
    /\ tr_args.left = 2147483647
    /\ Len(url_encoded) = 200

\* C12: in every announce cycle, whatever ran and returned before it, the
\* query attached to the URL carries uploaded=0, downloaded=0, compact=1 and
\* left = metadata.length (with the info hash of the metadata and the
\* identity of the session), and a cycle started with the metadata of the
\* cycle before it attaches the same query.
C12_FixedCounters ==
    /\ [](pc \in Suspended =>
            /\ url.query.some
            /\ IsQueryOf(url.query.str,
                 [info_hash |-> metadata.info_hash, peer_id |-> NewPeerId,
                  port |-> NewPort, uploaded |-> 0, downloaded |-> 0,
                  left |-> metadata.length, compact |-> 1]))
    /\ [][cycles' = cycles + 1 /\ metadata' = metadata /\ url.ok /\ url'.ok
            => url'.query = url.query]_vars

C12_Witness ==
    /\ cycles = 2
    /\ cancelAt = "write"
    /\ pc = "flush"
    /\ metadata.length = 92063
    /\ Fields(url.query.str)[6].value = T(<<"9", "2", "0", "6", "3">>)

\* The query of the request line written on the connection: the text
\* between the first ? and the space that follows it.
SentQuery ==
    LET rest == From(sent, Find(sent, QMarkT) + 1)
    IN Upto(rest, Find(rest, <<A(" ")>>))

\* C22: peer_id and port are the 20 zero bytes and 6881 that
\* BitTorrenter::new sets, no step of any operation changes them, and every
\* request handed to flush carries them in its peer_id and port fields.
C22_IdentityFixed ==
    /\ [](/\ peer_id = Rep(0, 20)
          /\ port = 6881
          /\ (pc = "flush" =>
                LET f == Fields(SentQuery)
                IN /\ Len(f) = 7
                   /\ f[2].name = FieldNames[2] /\ f[3].name = FieldNames[3]
                   /\ IsEscapeOfAll(f[2].value, Rep(0, 20))
                   /\ DecVal(f[3].value) = 6881))
    /\ [][peer_id' = peer_id /\ port' = port]_vars

C22_Witness ==
    /\ cycles = 2
    /\ cancelAt = "connect"
    /\ pc = "flush"
    /\ Fields(SentQuery)[3].value = T(<<"6", "8", "8", "1">>)
    /\ Len(Fields(SentQuery)[2].value) = 60

\* C13: percent_encode of at most 20 bytes returns, for every byte in input
\* order, % and the two uppercase hexadecimal digits of its value (so three
\* characters for one byte, 60 for 20 bytes, no byte unescaped), and a second
\* call on the same input returns the same string.
C13_PercentEncode ==
    pe_calls >= 1 /\ Len(pe_bytes) <= 20 =>
        /\ encoded.ok
        /\ IsEscapeOfAll(encoded.str, pe_bytes)
        /\ (Len(pe_bytes) = 1 => Len(encoded.str) = 3)
        /\ (Len(pe_bytes) = 20 => Len(encoded.str) = 60)
        /\ (pe_calls >= 2 => pe_prev = encoded)

C13_Witness ==
    /\ pe_calls = 2
    /\ pe_bytes = Rep(A("a"), 20)
    /\ SubSeq(encoded.str, 58, 60) = T(<<"%", "6", "1">>)

-----------------------------------------------------------------------------
(* One SimpleUrl: parse, set_query and the accessors (net.rs, mod url)      *)

MaxSetCalls == 2    \* calls of set_query on one SimpleUrl

Some(t) == [some |-> TRUE, str |-> t]
None == [some |-> FALSE, str |-> <<>>]

FtpSchemeT == T(<<"f", "t", "p">>)
NewQueryT == T(<<"n","e","w","=","q","u","e","r","y","&","p","a","r","a","m","=","v","a","l","u","e">>)
SubPathT == T(<<"/", "a", "/", "b">>)

\* The components URL texts are put together from.
UrlSchemes == {HttpSchemeT, HttpsSchemeT, FtpSchemeT}

UrlPorts ==
    {None} \cup
    {Some(t) : t \in {<<>>, T(<<"0">>), T(<<"8", "0">>), T(<<"0", "8", "0">>),
                      T(<<"8", "0", "8", "0">>), T(<<"6", "5", "5", "3", "5">>),
                      T(<<"6", "5", "5", "3", "6">>), T(<<"+", "8", "0">>),
                      T(<<"x">>), T(<<"8", "x">>)}}

UrlPaths == {<<>>, SubPathT}

UrlQueries ==
    {None} \cup
    {Some(t) : t \in {<<>>, T(<<"k", "=", "v">>), T(<<"a", "/", "b">>),
                      T(<<"a", "?", "b">>), T(<<"a", ":", "b">>),
                      Rep(A("q"), QueryCap), Rep(A("q"), QueryCap + 1)}}

UrlDocs ==
    [form : {"url"}, scheme : UrlSchemes, host : {HostT}, port : UrlPorts,
     path : UrlPaths, query : UrlQueries]
    \cup [form : {"nosep"}, scheme : {<<>>}, host : {HostT}, port : {None},
          path : UrlPaths, query : {None}]

\* The text of a URL made of the given components.
UrlText(d) ==
    Concat(<<IF d.form = "url" THEN d.scheme \o SchemeSepT ELSE <<>>,
             d.host,
             IF d.port.some THEN ColonT \o d.port.str ELSE <<>>,
             d.path,
             IF d.query.some THEN QMarkT \o d.query.str ELSE <<>> >>)

\* Arguments of set_query.
QueryArgs == {None, Some(NewQueryT), Some(Rep(A("q"), QueryCap)),
              Some(Rep(A("q"), QueryCap + 1))}

\* SimpleUrl::parse(utext).
UrlParseCall ==
    /\ parse_ret = NoUrl
    /\ parse_ret' = SimpleUrlParse(utext)
    /\ simple_url' = parse_ret'
    /\ UNCHANGED <<utext, udoc, set_calls, got>>

\* url.set_query(q).  What query(), path() and host_str() returned before
\* borrowed the SimpleUrl and is gone when set_query takes it mutably.
SetQueryCall ==
    /\ parse_ret.ok
    /\ Len(set_calls) < MaxSetCalls
    /\ \E q \in QueryArgs :
         /\ simple_url' = SetQuery(simple_url, q)
         /\ set_calls' = Append(set_calls, q)
    /\ got' = NoGot
    /\ UNCHANGED <<utext, udoc, parse_ret>>

\* host_str(), port(), path() and query().
ReadAccessors ==
    /\ parse_ret.ok
    /\ ~got.read
    /\ got' = [read |-> TRUE, port |-> UrlPort(simple_url), path |-> simple_url.path,
               query |-> simple_url.query, host |-> simple_url.host]
    /\ UNCHANGED <<utext, udoc, parse_ret, simple_url, set_calls>>

InitUrl ==
    /\ NetInit /\ ParseOff /\ EncOff /\ FsOff /\ DmaOff /\ HandlesOff
    /\ \E d \in UrlDocs : udoc = d /\ utext = UrlText(d)
    /\ parse_ret = NoUrl /\ simple_url = NoUrl /\ set_calls = <<>> /\ got = NoGot

NextUrl ==
    /\ \/ UrlParseCall
       \/ SetQueryCall
       \/ ReadAccessors
    /\ UNCHANGED <<netVars, parseVars, encVars, fsVars, dmaVars, handleVars>>

SpecUrl == InitUrl /\ [][NextUrl]_vars

-----------------------------------------------------------------------------
(* Properties of SimpleUrl                                                  *)

\* The 1-based index of the first byte c of s, 0 when there is none.
IndexOf(s, c) ==
    IF \E i \in 1..Len(s) : s[i] = c
    THEN CHOOSE i \in 1..Len(s) : s[i] = c /\ \A j \in 1..(i - 1) : s[j] # c
    ELSE 0

\* The 1-based index of the first :// of the text, 0 when there is none.
SepAt(text) ==
    LET at(i) == text[i] = A(":") /\ text[i + 1] = A("/") /\ text[i + 2] = A("/")
    IN IF \E i \in 1..(Len(text) - 2) : at(i)
       THEN CHOOSE i \in 1..(Len(text) - 2) : at(i) /\ \A j \in 1..(i - 1) : ~at(j)
       ELSE 0

\* What follows the first :// of the text.
RestOf(text) == SubSeq(text, SepAt(text) + 3, Len(text))

\* The host-port part: the rest up to its first /, without a / up to its
\* first ?, without either all of it.
HostPortOf(text) ==
    LET r == RestOf(text)
        sl == IndexOf(r, A("/"))
        qm == IndexOf(r, A("?"))
    IN SubSeq(r, 1, IF sl > 0 THEN sl - 1 ELSE IF qm > 0 THEN qm - 1 ELSE Len(r))

\* The text after the first : of the host-port part, None without a :.
PortTextOf(text) ==
    LET hp == HostPortOf(text)
        c == IndexOf(hp, A(":"))
    IN IF c = 0 THEN None ELSE Some(SubSeq(hp, c + 1, Len(hp)))

\* The text after the first ? that follows the ://, None without a ?.
QueryTextOf(text) ==
    LET r == RestOf(text)
        qm == IndexOf(r, A("?"))
    IN IF qm = 0 THEN None ELSE Some(SubSeq(r, qm + 1, Len(r)))

RECURSIVE StripZeros(_)
StripZeros(t) == IF Len(t) > 1 /\ Head(t) = A("0") THEN StripZeros(Tail(t)) ELSE t

\* t is one or more decimal digits whose value is at most 65535.
IsDecimalU16(t) ==
    /\ t # <<>>
    /\ \A i \in 1..Len(t) : t[i] >= A("0") /\ t[i] <= A("9")
    /\ Len(StripZeros(t)) <= 5
    /\ DigitsVal(StripZeros(t), 0) <= 65535

\* The number a port text writes (it may carry a + before the digits).
WrittenPort(t) == DigitsVal(IF t # <<>> /\ Head(t) = A("+") THEN Tail(t) ELSE t, 0)

\* C14: SimpleUrl::parse returns the error "Invalid URL: missing scheme"
\* when the text has no ://, the error "Invalid port number" when the
\* host-port part has a : and the text after its first : is not a decimal
\* unsigned 16-bit integer (empty and above 65535 included), and Ok in
\* every other case.
C14_ParseErrors ==
    parse_ret # NoUrl =>
        IF SepAt(utext) = 0
        THEN parse_ret = UrlError("Invalid URL: missing scheme")
        ELSE IF PortTextOf(utext).some /\ ~IsDecimalU16(PortTextOf(utext).str)
        THEN parse_ret = UrlError("Invalid port number")
        ELSE parse_ret.ok

\* C15: scheme://host parses to path / and no query, scheme://host?q to
\* host host, path / and query q for any q, and path() is never empty.
C15_HostOnlyForms ==
    /\ (parse_ret # NoUrl /\ udoc.form = "url" /\ ~udoc.port.some /\ udoc.path = <<>>
        =>  /\ parse_ret.ok
            /\ parse_ret.host = udoc.host
            /\ parse_ret.path = SlashT
            /\ parse_ret.query = udoc.query)
    /\ (parse_ret.ok => parse_ret.path # <<>>)
    /\ (got.read => got.path # <<>>)

\* C16: port() of a parsed URL is the port written in the URL when the URL
\* has a port segment, and otherwise 80 for scheme http and 443 for https.
C16_PortOrDefault ==
    got.read =>
        LET pt == PortTextOf(utext)
        IN IF pt.some THEN got.port = WrittenPort(pt.str)
           ELSE /\ (parse_ret.scheme = HttpSchemeT => got.port = 80)
                /\ (parse_ret.scheme = HttpsSchemeT => got.port = 443)

C16_Witness ==
    /\ got.read
    /\ udoc.scheme = HttpsSchemeT
    /\ udoc.port = Some(T(<<"8", "0">>))
    /\ got.port = 80

\* C17: set_query changes no component but the query, and after
\* set_query(Some(q)) followed by set_query(None) the URL equals the parsed
\* one with query None: the parsed URL itself when it had no query.
C17_SetThenClear ==
    parse_ret.ok =>
        /\ simple_url.scheme = parse_ret.scheme
        /\ simple_url.host = parse_ret.host
        /\ simple_url.port = parse_ret.port
        /\ simple_url.path = parse_ret.path
        /\ (set_calls = <<>> => simple_url = parse_ret)
        /\ (Len(set_calls) >= 2 /\ set_calls[Len(set_calls) - 1].some
              /\ ~set_calls[Len(set_calls)].some
            =>  /\ simple_url = [parse_ret EXCEPT !.query = NoQuery]
                /\ (parse_ret.query = NoQuery => simple_url = parse_ret)
                /\ (got.read =>
                      got = [read |-> TRUE, port |-> UrlPort(parse_ret),
                             path |-> parse_ret.path, query |-> NoQuery,
                             host |-> parse_ret.host]))

C17_Witness ==
    /\ set_calls = <<Some(NewQueryT), None>>
    /\ udoc.query = None
    /\ udoc.path = SubPathT
    /\ got.read
    /\ ~got.query.some

\* C18: query() returns Some(q) with the very text q after
\* set_query(Some(q)), and after parsing a URL that contains ?q.
C18_QueryKept ==
    got.read =>
        IF set_calls # <<>>
        THEN (Last(set_calls).some => got.query = Last(set_calls))
        ELSE (QueryTextOf(utext).some => got.query = QueryTextOf(utext))

-----------------------------------------------------------------------------
(* FileSystem::get_torrent_from_file (core-logic/src/fs/torrent_retrieval.rs) *)

MaxDirEntries == 3  \* entries of the torrents directory

LfnBufLen == 20

TorrentT == T(<<"t", "o", "r", "r", "e", "n", "t">>)

\* str::ends_with.
EndsWith(str, suffix) ==
    /\ Len(suffix) <= Len(str)
    /\ SubSeq(str, Len(str) - Len(suffix) + 1, Len(str)) = suffix

\* Directory entries: two files named *.torrent, a file with another long
\* name, and a file that has a short name only.  name is the ShortFileName
\* of the entry, lfn its long name, data its contents.
DirEntries ==
    { [lfn |-> Some(T(<<"a", ".", "t", "o", "r", "r", "e", "n", "t">>)),
       name |-> T(<<"A", "~", "1", ".", "T", "O", "R">>),
       data |-> T(<<"d", "1", ":", "a", "e">>)],
      [lfn |-> Some(T(<<"b", ".", "t", "o", "r", "r", "e", "n", "t">>)),
       name |-> T(<<"B", "~", "1", ".", "T", "O", "R">>),
       data |-> T(<<"d", "1", ":", "b", "i", "1", "e", "e">>)],
      [lfn |-> Some(T(<<"r", "e", "a", "d", "m", "e", ".", "m", "a", "r", "k", "d", "o", "w", "n">>)),
       name |-> T(<<"R", "E", "A", "D", "M", "E", "~", "1", ".", "M", "A", "R">>),
       data |-> T(<<"h", "i">>)],
      [lfn |-> None,
       name |-> T(<<"X", ".", "T", "O", "R">>),
       data |-> T(<<"d", "e">>)] }

Volumes ==
    { [torrents |-> TRUE, entries |-> es] :
        es \in UNION {[1..k -> DirEntries] : k \in 0..MaxDirEntries} }
    \cup {NoVolume}

\* The name iterate_dir_lfn hands to the closure: the long name of the entry
\* when it has one that fits the LfnBuffer.
LfnOf(e) == IF e.lfn.some /\ Len(e.lfn.str) <= LfnBufLen THEN e.lfn ELSE None

\* Option::replace: the option holds the value, the old content is returned.
OptionReplace(opt, v) == [now |-> [some |-> TRUE, name |-> v], old |-> opt]

Panic(m) == [tag |-> "panic", bytes |-> <<>>, msg |-> m]

\* go_to_root_dir and open_dir("torrents").expect(..).
FsOpenTorrents ==
    /\ fs_pc = "start"
    /\ IF fs_dirs.torrents
       THEN /\ opened_dir' = "torrents"
            /\ fs_pc' = "iterate"
            /\ fs_ret' = fs_ret
       ELSE /\ opened_dir' = "root"
            /\ fs_pc' = "panicked"
            /\ fs_ret' = Panic("'torrents' directory not found.")
    /\ UNCHANGED <<fs_dirs, open_file, dir_idx, file_name>>

\* One call of the closure by iterate_dir_lfn.
FsClosure ==
    /\ fs_pc = "iterate"
    /\ dir_idx < Len(fs_dirs.entries)
    /\ LET dir == fs_dirs.entries[dir_idx + 1]
           name == LfnOf(dir)
       IN /\ dir_idx' = dir_idx + 1
          /\ IF name.some /\ EndsWith(name.str, TorrentT) /\ ~file_name.some
             THEN LET r == OptionReplace(file_name, dir.name)
                  IN IF r.old.some
                     THEN /\ file_name' = r.now
                          /\ UNCHANGED <<fs_pc, fs_ret>>
                     ELSE \* expect on the None that replace returned
                          /\ file_name' = r.now
                          /\ fs_pc' = "panicked"
                          /\ fs_ret' = Panic("we checked that it is uninitialized")
             ELSE UNCHANGED <<file_name, fs_pc, fs_ret>>
    /\ UNCHANGED <<fs_dirs, opened_dir, open_file>>

\* iterate_dir_lfn returns an error of the block device.
FsIterateError ==
    /\ fs_pc = "iterate"
    /\ fs_pc' = "panicked"
    /\ fs_ret' = Panic("Couldn't iterate dir")
    /\ UNCHANGED <<fs_dirs, opened_dir, open_file, dir_idx, file_name>>

\* iterate_dir_lfn returns Ok: the file found is opened and read to its end.
FsReturn ==
    /\ fs_pc = "iterate"
    /\ dir_idx = Len(fs_dirs.entries)
    /\ IF file_name.some
       THEN \E opened \in BOOLEAN : \E readable \in BOOLEAN :
              LET found == CHOOSE i \in 1..Len(fs_dirs.entries) :
                               fs_dirs.entries[i].name = file_name.name
              IN IF ~opened
                 THEN /\ fs_pc' = "panicked"
                      /\ fs_ret' = Panic("we just found the file with this name")
                      /\ open_file' = open_file
                 ELSE IF ~readable
                 THEN /\ fs_pc' = "panicked"
                      /\ fs_ret' = Panic("Couldn't read file")
                      /\ open_file' = file_name
                 ELSE /\ fs_pc' = "done"
                      /\ fs_ret' = [tag |-> "Some", bytes |-> fs_dirs.entries[found].data,
                                    msg |-> ""]
                      /\ open_file' = file_name
       ELSE /\ fs_pc' = "done"
            /\ fs_ret' = [tag |-> "None", bytes |-> <<>>, msg |-> ""]
            /\ open_file' = open_file
    /\ UNCHANGED <<fs_dirs, opened_dir, dir_idx, file_name>>

InitFs ==
    /\ NetInit /\ ParseOff /\ EncOff /\ UrlOff /\ DmaOff /\ HandlesOff
    /\ fs_dirs \in Volumes
    /\ fs_pc = "start" /\ opened_dir = "root" /\ open_file = NoName
    /\ dir_idx = 0 /\ file_name = NoName /\ fs_ret = NoRet

NextFs ==
    /\ \/ FsOpenTorrents
       \/ FsClosure
       \/ FsIterateError
       \/ FsReturn
    /\ UNCHANGED <<netVars, parseVars, encVars, urlVars, dmaVars, handleVars>>

SpecFs == InitFs /\ [][NextFs]_vars

-----------------------------------------------------------------------------
(* Properties of get_torrent_from_file                                      *)

\* The name of a directory entry: its long name, else its short name.
NameOf(e) == IF e.lfn.some THEN e.lfn.str ELSE e.name

\* The entries of the torrents directory whose name ends in torrent.
Matching == {i \in 1..Len(fs_dirs.entries) : EndsWith(NameOf(fs_dirs.entries[i]), TorrentT)}

\* C19: with a torrents directory that can be read, get_torrent_from_file
\* returns Some with the whole contents of the first entry whose name ends
\* in torrent when there is one, without panicking, and None when there is
\* none.
C19_FirstTorrent ==
    /\ (fs_pc = "done" =>
          IF Matching = {} THEN fs_ret.tag = "None"
          ELSE /\ fs_ret.tag = "Some"
               /\ \E i \in Matching :
                    /\ \A j \in Matching : i <= j
                    /\ fs_ret.bytes = fs_dirs.entries[i].data)
    /\ (fs_pc = "panicked" /\ fs_dirs.torrents /\ Matching # {} =>
          fs_ret.msg \in {"Couldn't iterate dir", "Couldn't read file",
                          "we just found the file with this name"})

-----------------------------------------------------------------------------
(* EspSpiDma (src/fs/sd_card.rs): the SPI driver and its two DMA buffers,   *)
(* moved out of the struct for the time of a transfer                       *)

MaxTransfers == 3   \* calls of transfer and transfer_copy in one behaviour
DmaCap == 2         \* capacity of each DMA buffer

DmaBuf(n) == [some |-> TRUE, len |-> n]

\* Option::take of the three fields in the order of the code, each followed
\* by unwrap: the fields left behind, what was taken, and whether an unwrap
\* met None (what was taken before it is dropped by the unwinding).
TakeAll ==
    IF ~dma_spi
    THEN [ok |-> FALSE, spi |-> FALSE, tx |-> dma_tx_buf, rx |-> dma_rx_buf]
    ELSE IF ~dma_tx_buf.some
    THEN [ok |-> FALSE, spi |-> FALSE, tx |-> NoDmaBuf, rx |-> dma_rx_buf]
    ELSE [ok |-> dma_rx_buf.some, spi |-> FALSE, tx |-> NoDmaBuf, rx |-> NoDmaBuf]

\* The unwrap of a take() that found None.
DmaPanic(t) ==
    /\ dma_pc' = "panicked"
    /\ dma_spi' = t.spi /\ dma_tx_buf' = t.tx /\ dma_rx_buf' = t.rx
    /\ UNCHANGED <<dma_held, dma_ret>>

\* self.spi = Some(..); self.tx_buf = Some(..); self.rx_buf = Some(..).
PutBack(t_buf, r_buf) ==
    /\ dma_spi' = TRUE
    /\ dma_tx_buf' = t_buf
    /\ dma_rx_buf' = r_buf
    /\ dma_held' = NoHeld

\* tx_buffer: self.tx_buf.as_mut().unwrap().
TxBuffer ==
    /\ dma_pc = "idle"
    /\ IF dma_tx_buf.some
       THEN dma_ret' = "tx_slice" /\ dma_pc' = dma_pc
       ELSE dma_ret' = dma_ret /\ dma_pc' = "panicked"
    /\ UNCHANGED <<dma_spi, dma_tx_buf, dma_rx_buf, dma_held, dma_calls>>

\* rx_buffer: self.rx_buf.as_ref().unwrap().
RxBuffer ==
    /\ dma_pc = "idle"
    /\ IF dma_rx_buf.some
       THEN dma_ret' = "rx_slice" /\ dma_pc' = dma_pc
       ELSE dma_ret' = dma_ret /\ dma_pc' = "panicked"
    /\ UNCHANGED <<dma_spi, dma_tx_buf, dma_rx_buf, dma_held, dma_calls>>

\* transfer up to wait_for_done().await: the three fields are taken, the
\* lengths set, and spi.transfer either starts the DMA or hands everything
\* back with an error, which is put back at once.
TransferCall ==
    /\ dma_pc = "idle"
    /\ dma_calls < MaxTransfers
    /\ dma_calls' = dma_calls + 1
    /\ \E tx_len \in 0..DmaCap : \E rx_len \in 0..DmaCap : \E started \in BOOLEAN :
         LET t == TakeAll IN
         IF ~t.ok THEN DmaPanic(t)
         ELSE IF started
         THEN /\ dma_spi' = t.spi /\ dma_tx_buf' = t.tx /\ dma_rx_buf' = t.rx
              /\ dma_held' = [spi |-> TRUE, t_buf |-> DmaBuf(tx_len),
                              r_buf |-> DmaBuf(rx_len)]
              /\ dma_pc' = "wait_for_done"
              /\ dma_ret' = "none"
         ELSE /\ PutBack(DmaBuf(tx_len), DmaBuf(rx_len))
              /\ dma_pc' = "idle"
              /\ dma_ret' = "Err"

\* wait_for_done completes: transfer.wait() returns the driver and the
\* buffers, which are put back; Ok(()).
TransferDone ==
    /\ dma_pc = "wait_for_done"
    /\ PutBack(dma_held.t_buf, dma_held.r_buf)
    /\ dma_pc' = "idle"
    /\ dma_ret' = "Ok"
    /\ UNCHANGED dma_calls

\* transfer_copy up to transfer_async(..).await: the fields are taken and
\* moved into the bus made by with_buffers.
TransferCopyCall ==
    /\ dma_pc = "idle"
    /\ dma_calls < MaxTransfers
    /\ dma_calls' = dma_calls + 1
    /\ LET t == TakeAll IN
       IF ~t.ok THEN DmaPanic(t)
       ELSE /\ dma_spi' = t.spi /\ dma_tx_buf' = t.tx /\ dma_rx_buf' = t.rx
            /\ dma_held' = [spi |-> TRUE, t_buf |-> dma_tx_buf, r_buf |-> dma_rx_buf]
            /\ dma_pc' = "transfer_async"
            /\ dma_ret' = "none"

\* transfer_async completes with Ok or Err: split() and the three
\* assignments put everything back, then res is returned.
TransferCopyDone ==
    /\ dma_pc = "transfer_async"
    /\ PutBack(dma_held.t_buf, dma_held.r_buf)
    /\ dma_pc' = "idle"
    /\ \E res \in {"Ok", "Err"} : dma_ret' = res
    /\ UNCHANGED dma_calls

\* The caller drops the future of transfer or transfer_copy while it is
\* suspended: its locals (the DMA transfer or the bus, which own the driver
\* and the buffers) are dropped with it, and the code after the await does
\* not run.
DropTransfer ==
    /\ dma_pc \in {"wait_for_done", "transfer_async"}
    /\ dma_held' = NoHeld
    /\ dma_pc' = "idle"
    /\ dma_ret' = "Cancelled"
    /\ UNCHANGED <<dma_spi, dma_tx_buf, dma_rx_buf, dma_calls>>

\* EspSpiDma::new.
InitDma ==
    /\ NetInit /\ ParseOff /\ EncOff /\ UrlOff /\ FsOff /\ HandlesOff
    /\ dma_spi = TRUE /\ dma_tx_buf = DmaBuf(DmaCap) /\ dma_rx_buf = DmaBuf(DmaCap)
    /\ dma_pc = "idle" /\ dma_held = NoHeld /\ dma_ret = "none" /\ dma_calls = 0

NextDma ==
    /\ \/ TxBuffer
       \/ RxBuffer
       \/ TransferCall
       \/ TransferDone
       \/ TransferCopyCall
       \/ TransferCopyDone
       \/ DropTransfer
    /\ UNCHANGED <<netVars, parseVars, encVars, urlVars, fsVars, handleVars>>

SpecDma == InitDma /\ [][NextDma]_vars

-----------------------------------------------------------------------------
(* Properties of EspSpiDma                                                  *)

\* C30: whenever no transfer is in progress, spi, tx_buf and rx_buf are all
\* present, after completed, failed and abandoned transfers alike, so that
\* no call of tx_buffer, rx_buffer, transfer or transfer_copy finds one of
\* them missing.
C30_IdlePresent ==
    /\ (dma_pc = "idle" => dma_spi /\ dma_tx_buf.some /\ dma_rx_buf.some)
    /\ dma_pc # "panicked"

\* C30 for the behaviours in which no transfer has been abandoned so far.
C30_UnlessDropped ==
    dma_ret # "Cancelled" /\ dma_pc # "panicked" =>
        (dma_pc = "idle" => dma_spi /\ dma_tx_buf.some /\ dma_rx_buf.some)

-----------------------------------------------------------------------------
(* FileSystem (core-logic/src/fs.rs, fs/operations.rs) and the handles of    *)
(* its VolumeManager.  RawDirectory and RawFile are plain handle numbers;    *)
(* Directory and File, made from them by to_directory and to_file, are the   *)
(* embedded_sdmmc handles that close themselves when dropped, which is why   *)
(* get_root_dir and the open functions end in to_raw_directory/to_raw_file.  *)

MaxHandleId == 6    \* handle numbers the VolumeManager gives out in one behaviour

MAX_DIRS == 4
MAX_FILES == 4

NoHandle == 0

\* The names of directories a volume may hold in the directory that is open.
DirNames == {"torrents", "other"}

\* VolumeManager::close_dir: Ok when the handle is open, an error otherwise.
close_dir(s, d) ==
    IF d \in s.open_dirs
    THEN [ok |-> TRUE, s |-> [s EXCEPT !.open_dirs = @ \ {d}]]
    ELSE [ok |-> FALSE, s |-> s]

\* VolumeManager::close_file.
close_file(s, f) ==
    IF f \in s.open_files
    THEN [ok |-> TRUE, s |-> [s EXCEPT !.open_files = @ \ {f}]]
    ELSE [ok |-> FALSE, s |-> s]

\* A Directory handle goes out of scope: close_dir, its result ignored.
DropDirectory(s, d) == close_dir(s, d).s

Panicked(s) == [s EXCEPT !.pc = "panicked"]

\* VolumeMgr::get_root_dir: open_root_dir().to_raw_directory(), a panic on
\* an error.  h is the new handle.
get_root_dir(s) ==
    IF Cardinality(s.open_dirs) < MAX_DIRS
    THEN [ok |-> TRUE, h |-> s.next_id,
          s |-> [s EXCEPT !.open_dirs = @ \cup {s.next_id}, !.next_id = @ + 1]]
    ELSE [ok |-> FALSE, h |-> NoHandle, s |-> Panicked(s)]

\* FileSystem::new on a volume that holds the directories on_disk.
NewFileSystem(on_disk) ==
    LET root_dir == get_root_dir([open_dirs |-> {}, open_files |-> {}, next_id |-> 1,
                                  opened_dir |-> NoHandle, open_file |-> NoHandle,
                                  on_disk |-> on_disk, pc |-> "idle"])
    IN [root_dir.s EXCEPT !.opened_dir = root_dir.h]

\* FileSystem::set_current_dir.
set_current_dir(s, dir) ==
    LET r == close_dir([s EXCEPT !.opened_dir = dir], s.opened_dir)
    IN IF r.ok THEN r.s ELSE Panicked(r.s)

\* FileSystem::set_open_file.
set_open_file(s, file) ==
    LET replaced == [s EXCEPT !.open_file = file]
        r == close_file(replaced, s.open_file)
    IN IF s.open_file = NoHandle THEN replaced
       ELSE IF r.ok THEN r.s ELSE Panicked(r.s)

\* FileSystem::go_to_root_dir.
go_to_root_dir(s) ==
    LET r == get_root_dir(s)
    IN IF r.ok THEN set_current_dir(r.s, r.h) ELSE r.s

\* Directory::open_dir on the directory of handle parent.
DirOpenDir(s, parent, dir_name) ==
    IF /\ parent \in s.open_dirs
       /\ dir_name \in s.on_disk
       /\ Cardinality(s.open_dirs) < MAX_DIRS
    THEN [ok |-> TRUE, h |-> s.next_id,
          s |-> [s EXCEPT !.open_dirs = @ \cup {s.next_id}, !.next_id = @ + 1]]
    ELSE [ok |-> FALSE, h |-> NoHandle, s |-> s]

\* Directory::open_file_in_dir in the mode ReadWriteCreateOrAppend, which
\* creates the file when there is none; device_ok tells whether the block
\* device does its part.
DirOpenFile(s, parent, device_ok) ==
    IF parent \in s.open_dirs /\ device_ok /\ Cardinality(s.open_files) < MAX_FILES
    THEN [ok |-> TRUE, h |-> s.next_id,
          s |-> [s EXCEPT !.open_files = @ \cup {s.next_id}, !.next_id = @ + 1]]
    ELSE [ok |-> FALSE, h |-> NoHandle, s |-> s]

\* FileSystem::open_dir: dir, the Directory of the current directory, is
\* dropped at the end of the block, on the early return of ? as well.
open_dir(s, dir_name) ==
    LET r == DirOpenDir(s, s.opened_dir, dir_name)
        after == DropDirectory(r.s, s.opened_dir)
    IN IF r.ok THEN [ok |-> TRUE, s |-> set_current_dir(after, r.h)]
       ELSE [ok |-> FALSE, s |-> after]

\* FileSystem::open_file.
open_file_in(s, device_ok) ==
    LET r == DirOpenFile(s, s.opened_dir, device_ok)
        after == DropDirectory(r.s, s.opened_dir)
    IN IF r.ok THEN [ok |-> TRUE, s |-> set_open_file(after, r.h)]
       ELSE [ok |-> FALSE, s |-> after]

\* The call op has led to r; opens tells whether open_dir, open_file or
\* get_torrent_from_file has been called so far.
Called(op, r) ==
    /\ file_system' = r.s
    /\ fs_last' = [op |-> op, ok |-> r.ok /\ r.s.pc = "idle",
                   opens |-> fs_last.opens \/ op # "go_to_root_dir"]

Callable == file_system.pc = "idle" /\ file_system.next_id < MaxHandleId

GoToRootDir ==
    /\ Callable
    /\ Called("go_to_root_dir", [ok |-> TRUE, s |-> go_to_root_dir(file_system)])

OpenDir ==
    /\ Callable
    /\ \E dir_name \in DirNames : Called("open_dir", open_dir(file_system, dir_name))

OpenFile ==
    /\ Callable
    /\ \E device_ok \in BOOLEAN :
         Called("open_file", open_file_in(file_system, device_ok))

\* get_torrent_from_file as far as its open_dir("torrents").expect(..); the
\* steps after it are those of FsClosure and FsReturn.
GetTorrentFromFile ==
    /\ Callable
    /\ LET at_root == go_to_root_dir(file_system)
           r == open_dir(at_root, "torrents")
       IN Called("get_torrent_from_file",
                 IF at_root.pc = "panicked" THEN [ok |-> FALSE, s |-> at_root]
                 ELSE [ok |-> r.ok, s |-> IF r.ok THEN r.s ELSE Panicked(r.s)])

InitHandles ==
    /\ NetInit /\ ParseOff /\ EncOff /\ UrlOff /\ FsOff /\ DmaOff
    /\ \E on_disk \in SUBSET DirNames : file_system = NewFileSystem(on_disk)
    /\ fs_last = [op |-> "new", ok |-> TRUE, opens |-> FALSE]

NextHandles ==
    /\ \/ GoToRootDir
       \/ OpenDir
       \/ OpenFile
       \/ GetTorrentFromFile
    /\ UNCHANGED <<netVars, parseVars, encVars, urlVars, fsVars, dmaVars>>

SpecHandles == InitHandles /\ [][NextHandles]_vars

-----------------------------------------------------------------------------
(* Properties of the FileSystem handles                                     *)

\* The handles the FileSystem refers to.
Referenced(s) ==
    [dirs |-> {s.opened_dir},
     files |-> IF s.open_file = NoHandle THEN {} ELSE {s.open_file}]

\* C29: after every operation the VolumeManager holds open exactly the
\* directory handle in opened_dir and the file handle in open_file, if any;
\* no operation panics on closing a handle a second time.
C29_HandleAccounting ==
    /\ file_system.pc # "panicked"
    /\ file_system.open_dirs = Referenced(file_system).dirs
    /\ file_system.open_files = Referenced(file_system).files

\* C29 for the behaviours made of new and go_to_root_dir alone.
C29_RootOnly ==
    ~fs_last.opens =>
        /\ file_system.pc = "idle"
        /\ file_system.open_dirs = Referenced(file_system).dirs
        /\ file_system.open_files = Referenced(file_system).files

====
